---------------------------- MODULE Spec2Model ----------------------------
(***************************************************************************)
(* Keithley 2400 command server (src/serverPython/Keithley2400_server.py)  *)
(* and its reference client (src/serverPython/Keithley2400_client.py).     *)
(*                                                                         *)
(* Threads of the server process: the main thread (accept loop, then the   *)
(* cleanup), one handler thread per accepted connection, and the           *)
(* statistics reporter.  Every instrument write/query is one step; the     *)
(* code holds no lock, so steps of different threads interleave freely.    *)
(***************************************************************************)
EXTENDS Integers, Sequences, FiniteSets, TLC

(* ------------------------------ bounds -------------------------------- *)
NumSessions == 2        \* connections the acceptor hands out
ConcReq == 1            \* requests of each client when sessions run concurrently
SeqReq == 2             \* requests of the client of a single session
MaxSteps == 2           \* largest 'steps' of a voltage_sweep request
MaxVolt == 2            \* largest 'start' and 'stop' of a voltage_sweep request
MaxTicks == 2           \* sleeps of the statistics reporter that end
MaxRequests == 2        \* current changes the SiPhOG GUI asks for
MaxAmp == 2             \* largest |current| of a reply, in units of 1e-12 A

Sessions == 1..NumSessions

(* ------------------------- program constants -------------------------- *)
DefaultSteps == 11      \* cmd_data.get('steps', 11)
DefaultStart == 0       \* cmd_data.get('start', 0)
DefaultStop == 5        \* cmd_data.get('stop', 5)
Epsilon == 1            \* 1e-12 A, the unit the currents of replies are counted in
LogStride == 20         \* self.error_count % 20 == 1

VARIABLES
  cfg,          \* name of the scenario: which clients there are, what they send
  boot,         \* the start-up: calls made on the instrument, how it ended
  srv,          \* main thread: "accept", cleanup positions, "exited"
  round,        \* which call of cleanup() is running (start_server's, main's)
  ci,           \* cleanup's position in its iteration of self.clients
  running,      \* self.running
  clients,      \* self.clients (a list of sockets, here session ids)
  fast_mode,    \* self.fast_mode
  read_count,   \* self.read_count
  error_count,  \* self.error_count
  inst,         \* the instrument behind self.instrument
  lsock,        \* self.server_socket: "open" | "closed"
  pc,           \* handler thread of each session
  sock,         \* server side of each connection: "open" | "closed"
  peer,         \* client side of each connection: "open" | "closed"
  cmd,          \* the command a handler is processing
  rid,          \* number of the request it answers (history)
  idx,          \* position inside process_command
  br,           \* branch taken on self.fast_mode (reset, set_fast_mode)
  reg,          \* value loaded by a handler for  x += 1
  results,      \* the sweep's results list
  stat,         \* the replies the command has read (get_status, read)
  resp,         \* the response a handler is about to send
  wire,         \* bytes from client to server, not yet received
  back,         \* bytes from server to client, not yet received
  cpc,          \* client: "ready" | "waiting" | "closed"
  creq,         \* client: number of requests sent
  cgot,         \* client: what send_command returned last
  nsent,        \* responses a handler has sent (history)
  mon,          \* statistics reporter position
  snap,         \* statistics reporter: the records it has logged
  now,          \* time.time(), counted in sleeps of the reporter
  last_stats_time, \* self.last_stats_time
  lastCaller,   \* thread of the latest instrument call (history)
  lastArg,      \* the level the latest call programmed, if any (history)
  seen,         \* what get_status could have reported since it began (history)
  trace,        \* instrument calls of the command being processed (history)
  nreads,       \* executions of  self.read_count += 1  (history)
  nfails,       \* executions of  self.error_count += 1  (history)
  log,          \* what the read's except clause has logged
  \* The SiPhOG server (FNW_SERVER_V06_test_plot.py):
  sp,                        \* self.sp: "none" | "dev"
  server_running,            \* self.server_running
  current_mA,                \* self.current_mA
  new_current_mA,            \* self.new_current_mA (0 for None)
  current_change_requested,  \* self.current_change_requested
  mutex,                     \* self.mutex: "free" | "gui" | "thread"
  tpc,                       \* position of SiPhOGThread.run
  gpc,                       \* position of the GUI thread
  new_current,               \* apply_current_change's new_current
  conn,                      \* the client: "none" | "waiting" | "open" | "gone"
  setpoint,                  \* the SLED current the device was last given
  apply_current_button,      \* the Apply button is enabled
  signals,                   \* emitted signals the GUI has not yet handled
  asked,                     \* the requests made, in order (history)
  applied,                   \* the values check_and_update_current applied (history)
  \* The CLD101x server (cld101x_server.py):
  instr_timeout,     \* instr.timeout, in ms
  original_timeout,  \* handle_client's original_timeout (0: unbound)
  mpc,               \* position of main / handle_client
  serving,           \* the client handle_client is serving (0: none)
  backlog,           \* connections the listening socket has not yet accepted
  link,              \* each client: "away" | "waiting" | "open" | "left"
  inbox,             \* each client: what it sent that recv has not returned
  parts,             \* data.split() of the message being handled
  response,          \* the response about to be sent
  told,              \* each client: messages it has sent (history)
  taken,             \* each client: messages recv has returned (history)
  answered,          \* each client: responses it was sent (history)
  callers,           \* clients for which the instrument was called (history)
  before             \* instr.timeout when the command began (history)

vars == <<cfg, boot, srv, round, ci, running, clients, fast_mode, read_count,
          error_count, inst, lsock, pc, sock, peer, cmd, rid, idx, br, reg,
          results, stat, resp, wire, back, cpc, creq, cgot, nsent, mon,
          snap, now, last_stats_time, lastCaller, lastArg, seen, trace, nreads,
          nfails, log, sp, server_running, current_mA, new_current_mA,
          current_change_requested, mutex, tpc, gpc, new_current, conn,
          setpoint, apply_current_button, signals, asked, applied,
          instr_timeout, original_timeout, mpc, serving, backlog, link,
          inbox, parts, response, told, taken, answered, callers, before>>

\* The state of the SiPhOG server, of the CLD101x server, and of the
\* servers other than the Keithley command server.
sipVars == <<sp, server_running, current_mA, new_current_mA,
             current_change_requested, mutex, tpc, gpc, new_current, conn,
             setpoint, apply_current_button, signals, asked, applied>>
cldVars == <<instr_timeout, original_timeout, mpc, serving, backlog, link,
             inbox, parts, response, told, taken, answered, callers, before>>
extVars == <<sipVars, cldVars>>

\* instr.timeout = 1000 in main; instr.timeout = 200 for the TEC reading.
DefaultTimeout == 1000
TecTimeout == 200

\* cld101x_server.main up to its accept loop: the instrument is open with
\* the default timeout, the socket listens, no client has connected.
Listening ==
  /\ instr_timeout = DefaultTimeout /\ original_timeout = 0
  /\ mpc = "accept" /\ serving = 0 /\ backlog = <<>>
  /\ link = [c \in Sessions |-> "away"]
  /\ inbox = [c \in Sessions |-> <<>>]
  /\ parts = <<>> /\ response = ""
  /\ told = [c \in Sessions |-> 0]
  /\ taken = [c \in Sessions |-> 0]
  /\ answered = [c \in Sessions |-> 0]
  /\ callers = <<>> /\ before = DefaultTimeout

\* RealTimePlotWidget.__init__: no server thread yet, the Apply button
\* disabled.
NoThread ==
  /\ sp = "none" /\ server_running = FALSE
  /\ current_mA = 0 /\ new_current_mA = 0
  /\ current_change_requested = FALSE
  /\ mutex = "free" /\ tpc = "none" /\ gpc = "idle" /\ new_current = 0
  /\ conn = "none" /\ setpoint = 0 /\ apply_current_button = FALSE
  /\ signals = <<>> /\ asked = <<>> /\ applied = <<>>

(* --------------------------- the instrument --------------------------- *)
\* The instrument after *RST: output off, voltage source, auto-zero and
\* display on, one sense function, all data elements.
InstDefault ==
  [output |-> "OFF", func |-> "VOLT", azer |-> TRUE, disp |-> TRUE,
   conc |-> FALSE, elem |-> "ALL", closed |-> FALSE]

\* Effect of a successful write of the SCPI command c.
InstWrite(i, c) ==
  CASE c = "*RST"                -> [InstDefault EXCEPT !.closed = i.closed]
    [] c = ":OUTP ON"            -> [i EXCEPT !.output = "ON"]
    [] c = ":OUTP OFF"           -> [i EXCEPT !.output = "OFF"]
    [] c = ":SOUR:FUNC VOLT"     -> [i EXCEPT !.func = "VOLT"]
    [] c = ":SOUR:FUNC CURR"     -> [i EXCEPT !.func = "CURR"]
    [] c = ":SYST:AZER ON"       -> [i EXCEPT !.azer = TRUE]
    [] c = ":SYST:AZER OFF"      -> [i EXCEPT !.azer = FALSE]
    [] c = ":DISP:ENAB ON"       -> [i EXCEPT !.disp = TRUE]
    [] c = ":DISP:ENAB OFF"      -> [i EXCEPT !.disp = FALSE]
    [] c = ":SENS:FUNC:CONC ON"  -> [i EXCEPT !.conc = TRUE]
    [] c = ":FORM:ELEM VOLT,CURR" -> [i EXCEPT !.elem = "VC"]
    [] OTHER                     -> i

\* Reply of a successful query of c.
InstQuery(i, c) ==
  CASE c = ":OUTP?"      -> IF i.output = "ON" THEN "1" ELSE "0"
    [] c = ":SOUR:FUNC?" -> i.func
    [] c = "*IDN?"       -> "KEITHLEY"
    [] OTHER             -> "reply"

\* Outcomes of one instrument call: it returns, or raises a VISA error whose
\* text names a timeout, or raises another error.  A closed session raises.
Outcomes(i) == IF i.closed THEN {"error"} ELSE {"ok", "timeout", "error"}


(* ------------------------------ commands ------------------------------ *)
\* A decoded request: 'type' and the members of 'data' that process_command
\* reads (cmd_data.get with its default when the member is absent).
Cmd(t, scpi, state, steps, enabled, range) ==
  [type |-> t, scpi |-> scpi, state |-> state, steps |-> steps,
   enabled |-> enabled, range |-> range,
   start |-> DefaultStart, stop |-> DefaultStop]

NoCmd == Cmd("none", "", "OFF", DefaultSteps, TRUE, "AUTO")

WriteCmds   == {Cmd("write", c, "OFF", DefaultSteps, TRUE, "AUTO") :
                  c \in {":OUTP ON", ":SOUR:FUNC CURR"}}
QueryCmds   == {Cmd("query", ":OUTP?", "OFF", DefaultSteps, TRUE, "AUTO")}
ReadCmds    == {Cmd("read", "", "OFF", DefaultSteps, TRUE, "AUTO")}
SetupVCmds  == {Cmd("setup_voltage_source", "", "OFF", DefaultSteps, TRUE, r) :
                  r \in {"AUTO", "20"}}
SetupCCmds  == {Cmd("setup_current_source", "", "OFF", DefaultSteps, TRUE, r) :
                  r \in {"AUTO", "20"}}
OutputCmds  == {Cmd("output", "", st, DefaultSteps, TRUE, "AUTO") :
                  st \in {"ON", "OFF"}}
SweepCmds   == {Cmd("voltage_sweep", "", "OFF", n, TRUE, "AUTO") :
                  n \in (-1)..MaxSteps}
StatusCmds  == {Cmd("get_status", "", "OFF", DefaultSteps, TRUE, "AUTO")}
ResetCmds   == {Cmd("reset", "", "OFF", DefaultSteps, TRUE, "AUTO")}
FastCmds    == {Cmd("set_fast_mode", "", "OFF", DefaultSteps, e, "AUTO") :
                  e \in BOOLEAN}
UnknownCmds == {Cmd(t, "", "OFF", DefaultSteps, TRUE, "AUTO") :
                  t \in {"bogus", ""}}

AllCmds == WriteCmds \cup QueryCmds \cup ReadCmds \cup SetupVCmds \cup
           SetupCCmds \cup OutputCmds \cup SweepCmds \cup StatusCmds \cup
           ResetCmds \cup FastCmds \cup UnknownCmds

\* Requests as Keithley2400Client builds them: a JSON object with 'type'
\* and, for most helpers, 'data'.  Decimal numbers are quotients.
Dec(n, d) == [n |-> n, d |-> d]

write_command(scpi_command) ==
  [type |-> "write", data |-> [command |-> scpi_command]]
query_command(scpi_command) ==
  [type |-> "query", data |-> [command |-> scpi_command]]
read_measurement == [type |-> "read"]
setup_voltage_source(voltage, compliance, range_val) ==
  [type |-> "setup_voltage_source",
   data |-> [voltage |-> voltage, compliance |-> compliance,
             range |-> range_val]]
setup_current_source(current, compliance, range_val) ==
  [type |-> "setup_current_source",
   data |-> [current |-> current, compliance |-> compliance,
             range |-> range_val]]
set_output(state) == [type |-> "output", data |-> [state |-> state]]
voltage_sweep(start, stop, steps, compliance, delay) ==
  [type |-> "voltage_sweep",
   data |-> [start |-> start, stop |-> stop, steps |-> steps,
             compliance |-> compliance, delay |-> delay]]
get_status == [type |-> "get_status"]
reset_instrument == [type |-> "reset"]

\* Mutant: the client's sweep has ten steps unless told otherwise.
SweepByDefaultTen == voltage_sweep(0, 5, 10, Dec(1, 10), Dec(1, 10))
\* The helpers called with the default values of their parameters.
SweepByDefault == voltage_sweep(0, 5, 11, Dec(1, 10), Dec(1, 10))
VoltageSourceByDefault == setup_voltage_source(0, Dec(1, 10), "AUTO")
CurrentSourceByDefault == setup_current_source(0, Dec(10, 1), "AUTO")
OutputByDefault == set_output("OFF")

\* What the demos and the interactive mode send, and the helpers by
\* default.
HelperRequests ==
  {write_command(":OUTP ON"), query_command(":OUTP?"), read_measurement,
   setup_voltage_source(1, Dec(1, 100), "AUTO"), VoltageSourceByDefault,
   CurrentSourceByDefault, set_output("ON"), OutputByDefault,
   voltage_sweep(0, MaxVolt, MaxSteps, Dec(1, 100), Dec(1, 10)),
   SweepByDefault, get_status, reset_instrument}

\* dict.get(key, default)
Get(d, key, default) == IF key \in DOMAIN d THEN d[key] ELSE default

\* A message in the form the client sends it, rather than as the values
\* process_command reads from it.
IsRequest(b) == "scpi" \notin DOMAIN b /\ "bad" \notin DOMAIN b

\* process_command's view of a request: the type tag and what each
\* cmd_data.get returns, with the branch's default for a missing member.
FromRequest(b) ==
  LET t == Get(b, "type", "")
      d == Get(b, "data", <<>>)
  IN [type |-> t,
      scpi |-> Get(d, "command", ""),
      state |-> Get(d, "state", "OFF"),
      steps |-> Get(d, "steps", DefaultSteps),
      enabled |-> Get(d, "enabled", TRUE),
      range |-> Get(d, "range", "AUTO"),
      start |-> Get(d, "start", DefaultStart),
      stop |-> Get(d, "stop", DefaultStop),
      level |-> Get(d, IF t = "setup_current_source" THEN "current"
                       ELSE "voltage", 0),
      compliance |-> Get(d, "compliance",
                         IF t = "setup_current_source" THEN Dec(10, 1)
                         ELSE Dec(1, 10)),
      delay |-> Get(d, "delay", Dec(1, 10))]

Decoded(b) == IF IsRequest(b) THEN FromRequest(b) ELSE b

\* Responses: {"status": ..., "message": ..., "data": ...}.  'kind' tells
\* which member a response carries and what its data is.
\* 'has' is the set of members present besides "status".
Success(kind, msg, data) ==
  [status |-> "success", kind |-> kind, msg |-> msg, data |-> data,
   has |-> IF kind = "message" THEN {"message"} ELSE {"data"}]
\* Mutant: the error response is given a data member.
FailureWithData(msg) ==
  [status |-> "error", kind |-> "message", msg |-> msg, data |-> <<>>,
   has |-> {"message", "data"}]
Failure(msg) ==
  [status |-> "error", kind |-> "message", msg |-> msg, data |-> <<>>,
   has |-> {"message"}]
NoResp == [status |-> "none", kind |-> "message", msg |-> "", data |-> <<>>,
           has |-> {}]
NoGot == [for |-> 0, ans |-> 0, body |-> NoResp]

\* The straight-line commands: their instrument writes, in program order.
SetupVoltageCalls(c) ==
  <<":SOUR:FUNC VOLT", ":SOUR:VOLT:MODE FIXED", ":SOUR:VOLT">> \o
  (IF c.range # "AUTO" THEN <<":SOUR:VOLT:RANG">> ELSE <<>>) \o
  <<":SENS:FUNC CURR", ":SENS:CURR:PROT">>

SetupCurrentCalls(c) ==
  <<":SOUR:FUNC CURR", ":SOUR:CURR:MODE FIXED", ":SOUR:CURR">> \o
  (IF c.range # "AUTO" THEN <<":SOUR:CURR:RANG">> ELSE <<>>) \o
  <<":SENS:FUNC VOLT", ":SENS:VOLT:PROT">>

WriteCalls(c) ==
  CASE c.type = "write"                -> <<c.scpi>>
    [] c.type = "setup_voltage_source" -> SetupVoltageCalls(c)
    [] c.type = "setup_current_source" -> SetupCurrentCalls(c)
    [] c.type = "output"               -> <<":OUTP " \o c.state>>
    [] OTHER                           -> <<>>

\* Mutant: the output is switched on before the compliance limit is set.
SweepSetupOutputEarly ==
  <<":SOUR:FUNC VOLT", ":SOUR:VOLT:MODE FIXED", ":SENS:FUNC CURR",
    ":OUTP ON", ":SENS:CURR:PROT">>

\* The sweep's calls before its loop.
SweepSetup ==
  <<":SOUR:FUNC VOLT", ":SOUR:VOLT:MODE FIXED", ":SENS:FUNC CURR",
    ":SENS:CURR:PROT", ":OUTP ON">>

\* range(steps): the loop runs for i = 0 .. steps-1, not at all when steps <= 0.
SweepLen(c) == IF c.steps > 0 THEN c.steps ELSE 0

\* A level is the quotient n / d of two integers (Python's true division),
\* kept as the pair.
NoArg == [n |-> 0, d |-> 0]
\* Mutant: the step width is the span divided by steps.
LevelOverSteps(c, i) ==
  [n |-> c.start * c.steps + i * (c.stop - c.start), d |-> c.steps]
\* start_v + i * (stop_v - start_v) / (steps - 1)
Level(c, i) ==
  [n |-> c.start * (c.steps - 1) + i * (c.stop - c.start), d |-> c.steps - 1]
\* voltages = [... for i in range(steps)]
SweepVoltages(c) == [k \in 1..SweepLen(c) |-> Level(c, k - 1)]

\* Mutant: the element selection is left out of the fast configuration.
FastConfigNoElem ==
  <<":SYST:AZER OFF", ":DISP:ENAB OFF", ":SENS:FUNC:CONC ON">>
\* The fast-mode configuration writes (reset, set_fast_mode).
FastConfig ==
  <<":SYST:AZER OFF", ":DISP:ENAB OFF", ":SENS:FUNC:CONC ON",
    ":FORM:ELEM VOLT,CURR">>
StandardConfig == <<":SYST:AZER ON", ":DISP:ENAB ON">>

(* ------------------------------- wire --------------------------------- *)
\* A request of the client is json.dumps(command), sent with one send(); the
\* byte stream delivers it as Scn.reqFrags fragments. recv(1024) returns any
\* non-empty prefix of what has arrived.
Fragments(k, body, n) ==
  [p \in 1..n |-> [rid |-> k, part |-> p, of |-> n, body |-> body]]

\* json.loads(data) succeeds exactly when data is one whole message.
Whole(data) ==
  /\ Len(data) > 0
  /\ Len(data) = data[1].of
  /\ \A p \in 1..Len(data) : data[p].rid = data[1].rid /\ data[p].part = p

\* What a peer can send that is not a request: bytes that are not UTF-8,
\* text that is not JSON, a JSON value that is not an object.
Garbage == {[bad |-> k] : k \in {"utf8", "json", "object"}}
IsGarbage(b, k) == "bad" \in DOMAIN b /\ b.bad = k
\* recv(1024).decode('utf-8') returns: the bytes received are UTF-8.
Decodes(data) == \A p \in 1..Len(data) : ~IsGarbage(data[p].body, "utf8")
\* json.loads(data) returns: one whole message of JSON text.
Parses(data) == Whole(data) /\ ~IsGarbage(data[1].body, "json")

Prefix(q, n) == SubSeq(q, 1, n)
Rest(q, n) == SubSeq(q, n + 1, Len(q))
Min(a, b) == IF a < b THEN a ELSE b
\* Mutant: the last socket of the list is taken off, whichever it is.
RemoveLast(q, x) == SubSeq(q, 1, Len(q) - 1)
\* list.remove(x): q without its first x.
Remove(q, x) ==
  LET F[i \in 0..Len(q)] ==
        IF i = 0 THEN <<>>
        ELSE IF q[i] = x /\ \A j \in 1..(i-1) : q[j] # x THEN F[i-1]
        ELSE Append(F[i-1], q[i])
  IN F[Len(q)]
InSeq(x, q) == \E i \in 1..Len(q) : q[i] = x

(* ----------------------------- scenarios ------------------------------ *)
\* Two concurrent sessions, one request each, every message whole.
ConcurrentCfg ==
  [sessions |-> Sessions, maxReq |-> ConcReq, fast |-> BOOLEAN,
   reqFrags |-> 1, respFrags |-> 1, recvMax |-> 1, crecvMax |-> 1,
   fields |-> {1, 2, 4},
   cmds |-> ReadCmds \cup SetupVCmds \cup OutputCmds \cup SweepCmds]

\* One session that sends voltage_sweep requests, any 'steps'.
SweepCfg ==
  [sessions |-> {1}, maxReq |-> SeqReq, fast |-> BOOLEAN,
   reqFrags |-> 1, respFrags |-> 1, recvMax |-> 1, crecvMax |-> 1,
   fields |-> {1, 2, 4}, cmds |-> SweepCmds]

\* One session that switches the output or sweeps, and the shutdown.
ShutdownCfg ==
  [sessions |-> {1}, maxReq |-> ConcReq, fast |-> BOOLEAN,
   reqFrags |-> 1, respFrags |-> 1, recvMax |-> 1, crecvMax |-> 1,
   fields |-> {2}, cmds |-> OutputCmds \cup SweepCmds]

\* One session whose requests take two fragments each, as does a long
\* response; one recv returns one or two fragments.
StreamCfg ==
  [sessions |-> {1}, maxReq |-> SeqReq, fast |-> {TRUE},
   reqFrags |-> 2, respFrags |-> 2, recvMax |-> 2, crecvMax |-> 2,
   fields |-> {2}, cmds |-> OutputCmds \cup SweepCmds]

\* Concurrent sessions that read and switch the output.
LiveCfg ==
  [sessions |-> Sessions, maxReq |-> ConcReq, fast |-> {TRUE},
   reqFrags |-> 1, respFrags |-> 1, recvMax |-> 1, crecvMax |-> 1,
   fields |-> {2}, cmds |-> ReadCmds \cup OutputCmds]

\* One session that sweeps between integer end points, with 2, 3 or the
\* default number of steps.
LevelCmds ==
  {[Cmd("voltage_sweep", "", "OFF", n, TRUE, "AUTO")
      EXCEPT !.start = a, !.stop = b] :
     n \in {2, 3, DefaultSteps},
     a \in 0..MaxVolt, b \in (0..MaxVolt) \cup {DefaultStop}}

LevelsCfg ==
  [sessions |-> {1}, maxReq |-> ConcReq, fast |-> {TRUE},
   reqFrags |-> 1, respFrags |-> 1, recvMax |-> 1, crecvMax |-> 1,
   fields |-> {2}, cmds |-> LevelCmds]

\* Two sessions whose clients send requests and things that are not
\* requests.
ProtocolCfg ==
  [sessions |-> Sessions, maxReq |-> SeqReq, fast |-> {TRUE},
   reqFrags |-> 1, respFrags |-> 1, recvMax |-> 1, crecvMax |-> 1,
   fields |-> {2},
   cmds |-> Garbage \cup UnknownCmds \cup OutputCmds]

\* Two sessions, one request each, of any of the ten types.
FaultCmds ==
  {Cmd("write", ":SOUR:FUNC CURR", "OFF", DefaultSteps, TRUE, "AUTO"),
   Cmd("setup_voltage_source", "", "OFF", DefaultSteps, TRUE, "20"),
   Cmd("setup_current_source", "", "OFF", DefaultSteps, TRUE, "AUTO"),
   Cmd("output", "", "ON", DefaultSteps, TRUE, "AUTO"),
   Cmd("voltage_sweep", "", "OFF", 2, TRUE, "AUTO")}
  \cup QueryCmds \cup ReadCmds \cup StatusCmds \cup ResetCmds \cup FastCmds

FaultsCfg ==
  [sessions |-> Sessions, maxReq |-> ConcReq, fast |-> {TRUE},
   reqFrags |-> 1, respFrags |-> 1, recvMax |-> 1, crecvMax |-> 1,
   fields |-> {2}, cmds |-> FaultCmds]

\* Two sessions whose peers may leave at any time.
SessionsCfg ==
  [sessions |-> Sessions, maxReq |-> ConcReq, fast |-> {TRUE},
   reqFrags |-> 1, respFrags |-> 1, recvMax |-> 1, crecvMax |-> 1,
   fields |-> {2}, cmds |-> ReadCmds \cup OutputCmds]

\* Two sessions that ask for the status, switch the output on and select
\* the current source, two requests each.
StatusCfg ==
  [sessions |-> Sessions, maxReq |-> SeqReq, fast |-> {TRUE},
   reqFrags |-> 1, respFrags |-> 1, recvMax |-> 1, crecvMax |-> 1,
   fields |-> {2},
   cmds |-> StatusCmds \cup
            {Cmd("output", "", "ON", DefaultSteps, TRUE, "AUTO"),
             Cmd("write", ":SOUR:FUNC CURR", "OFF", DefaultSteps, TRUE, "AUTO")}]

\* One session that resets the instrument and switches fast mode.
ConfigCfg ==
  [sessions |-> {1}, maxReq |-> SeqReq, fast |-> BOOLEAN,
   reqFrags |-> 1, respFrags |-> 1, recvMax |-> 1, crecvMax |-> 1,
   fields |-> {2}, cmds |-> ResetCmds \cup FastCmds]

\* One session that reads and switches fast mode; replies of one to four
\* fields, currents on both sides of epsilon and of either sign.
MeasureCfg ==
  [sessions |-> {1}, maxReq |-> SeqReq, fast |-> BOOLEAN,
   reqFrags |-> 1, respFrags |-> 1, recvMax |-> 1, crecvMax |-> 1,
   fields |-> {1, 2, 3, 4}, volts |-> 0..MaxVolt,
   currents |-> (-MaxAmp)..MaxAmp,
   cmds |-> ReadCmds \cup FastCmds]

\* One session whose client sets up the voltage source, switches the output
\* on, reads, switches the output off and asks for the status.
EndToEnd ==
  <<Cmd("setup_voltage_source", "", "OFF", DefaultSteps, TRUE, "AUTO"),
    Cmd("output", "", "ON", DefaultSteps, TRUE, "AUTO"),
    Cmd("read", "", "OFF", DefaultSteps, TRUE, "AUTO"),
    Cmd("output", "", "OFF", DefaultSteps, TRUE, "AUTO"),
    Cmd("get_status", "", "OFF", DefaultSteps, TRUE, "AUTO")>>

EndToEndCfg ==
  [sessions |-> {1}, maxReq |-> Len(EndToEnd), fast |-> BOOLEAN,
   reqFrags |-> 1, respFrags |-> 1, recvMax |-> 1, crecvMax |-> 1,
   fields |-> {2}, script |-> EndToEnd, cmds |-> {}]

\* Sessions whose clients ask for the status and then sweep, over
\* connections that hold two fragments of a response; one recv of a client
\* takes one fragment.
AcceptorCfg ==
  [sessions |-> Sessions, maxReq |-> SeqReq, fast |-> {TRUE},
   reqFrags |-> 1, respFrags |-> 2, recvMax |-> 1, crecvMax |-> 1,
   fields |-> {2}, sockBuf |-> 2, cmds |-> {},
   script |-> <<Cmd("get_status", "", "OFF", DefaultSteps, TRUE, "AUTO"),
                Cmd("voltage_sweep", "", "OFF", MaxSteps, TRUE, "AUTO")>>]

\* Sessions that switch the output on while the server shuts down.
TeardownCfg ==
  [sessions |-> Sessions, maxReq |-> ConcReq, fast |-> {FALSE},
   reqFrags |-> 1, respFrags |-> 1, recvMax |-> 1, crecvMax |-> 1,
   fields |-> {2},
   cmds |-> {Cmd("output", "", "ON", DefaultSteps, TRUE, "AUTO")}]

\* JSON objects of every type tag, known or not or absent (''), without a
\* 'data' member: every cmd_data.get returns its default.
NoDataCmds ==
  {Cmd(t, "", "OFF", DefaultSteps, TRUE, "AUTO") :
     t \in {"write", "query", "read", "setup_voltage_source",
            "setup_current_source", "output", "voltage_sweep", "get_status",
            "reset", "set_fast_mode", "bogus", ""}}
\* The same objects with a 'data' member that is null or a value that is
\* not an object.
BadDataCmds ==
  {[type |-> c.type, scpi |-> c.scpi, state |-> c.state, steps |-> c.steps,
    enabled |-> c.enabled, range |-> c.range, start |-> c.start,
    stop |-> c.stop, data |-> d] :
     c \in NoDataCmds, d \in {"null", "scalar"}}

\* One session whose client sends JSON values of every shape.
ShapesCfg ==
  [sessions |-> {1}, maxReq |-> SeqReq, fast |-> {TRUE},
   reqFrags |-> 1, respFrags |-> 1, recvMax |-> 1, crecvMax |-> 1,
   fields |-> {2},
   cmds |-> NoDataCmds \cup BadDataCmds \cup {[bad |-> "object"]}]

\* One session whose client uses the helpers of Keithley2400Client.
HelpersCfg ==
  [sessions |-> {1}, maxReq |-> SeqReq, fast |-> {TRUE},
   reqFrags |-> 1, respFrags |-> 1, recvMax |-> 1, crecvMax |-> 1,
   fields |-> {2}, cmds |-> HelperRequests]

\* The Keithley server is not running: another server of the repository is.
OtherCfg ==
  [sessions |-> {}, maxReq |-> 0, fast |-> {FALSE},
   reqFrags |-> 1, respFrags |-> 1, recvMax |-> 1, crecvMax |-> 1,
   fields |-> {2}, cmds |-> {}]

\* One session that reads, after up to two strides of failed reads.
LoggingCfg ==
  [sessions |-> {1}, maxReq |-> SeqReq, fast |-> {TRUE},
   reqFrags |-> 1, respFrags |-> 1, recvMax |-> 1, crecvMax |-> 1,
   fields |-> {1, 2}, failed |-> 0..(2 * LogStride), cmds |-> ReadCmds]

\* One session that reads, and the statistics reporter.
MonitorCfg ==
  [sessions |-> {1}, maxReq |-> SeqReq, fast |-> {TRUE},
   reqFrags |-> 1, respFrags |-> 1, recvMax |-> 1, crecvMax |-> 1,
   fields |-> {1, 2}, ticks |-> MaxTicks, cmds |-> ReadCmds]

\* The start-up of the process, then one session that switches the output.
StartupCfg ==
  [sessions |-> {1}, maxReq |-> ConcReq, fast |-> BOOLEAN,
   reqFrags |-> 1, respFrags |-> 1, recvMax |-> 1, crecvMax |-> 1,
   fields |-> {2}, cmds |-> OutputCmds]

\* One session that may send any command, the reporter and the shutdown.
ServerCfg ==
  [sessions |-> {1}, maxReq |-> ConcReq, fast |-> BOOLEAN,
   reqFrags |-> 1, respFrags |-> 1, recvMax |-> 1, crecvMax |-> 1,
   fields |-> {1, 2, 4}, cmds |-> AllCmds]

\* The scenario of the run: the sessions there are, the requests each client
\* sends and what it may send, the initial flag, the fragments a request and
\* a long response arrive in, the fragments one recv of server and client
\* can return, and the number of fields a ':READ?' reply can have.
Scenario(name) ==
  CASE name = "concurrent" -> ConcurrentCfg
    [] name = "sweep"      -> SweepCfg
    [] name = "stream"     -> StreamCfg
    [] name = "live"       -> LiveCfg
    [] name = "server"     -> ServerCfg
    [] name = "levels"     -> LevelsCfg
    [] name = "protocol"   -> ProtocolCfg
    [] name = "faults"     -> FaultsCfg
    [] name = "sessions"   -> SessionsCfg
    [] name = "status"     -> StatusCfg
    [] name = "config"     -> ConfigCfg
    [] name = "startup"    -> StartupCfg
    [] name = "monitor"    -> MonitorCfg
    [] name = "measure"    -> MeasureCfg
    [] name = "logging"    -> LoggingCfg
    [] name = "endtoend"   -> EndToEndCfg
    [] name = "acceptor"   -> AcceptorCfg
    [] name = "teardown"   -> TeardownCfg
    [] name = "shapes"     -> ShapesCfg
    [] name = "helpers"    -> HelpersCfg
    [] name = "siphog"     -> OtherCfg
    [] name = "cld"        -> OtherCfg
    [] OTHER               -> ShutdownCfg

Scn == Scenario(cfg)

\* The sleeps of the statistics reporter that end during the run: one, unless
\* the scenario says how many.
Ticks == IF "ticks" \in DOMAIN Scn THEN Scn.ticks ELSE 1

(* ----------------------------- start-up ------------------------------- *)
\* connect_instrument: the calls it issues on the opened resource, in order,
\* for the given flag.
ConnectCalls(fm) ==
  (IF fm THEN <<":SYST:AZER OFF", ":DISP:ENAB OFF">> ELSE <<>>) \o
  <<"*IDN?", "*RST", "*CLS">> \o
  (IF fm THEN <<":SENS:FUNC:CONC ON", ":FORM:ELEM VOLT,CURR">> ELSE <<>>)

ApplyAll(i, calls) ==
  LET F[n \in 0..Len(calls)] ==
        IF n = 0 THEN i ELSE InstWrite(F[n-1], calls[n])
  IN F[Len(calls)]

\* The instrument as connect_instrument leaves it when no call fails.
ConnectInstrument(fm) == ApplyAll(InstDefault, ConnectCalls(fm))

\* The start-up: 'calls' counts the calls connect_instrument has made on the
\* opened resource; 'state' is "pending" until the start-up ends, then "up",
\* or "instrument" / "port" after a failure of connect_instrument / of
\* start_server's bind and listen.
Boot(state, n) == [state |-> state, calls |-> n]

\* The failed reads the server has behind it when the run begins (none
\* since the last report, unless the scenario says how many).
FailedBefore(c) ==
  IF "failed" \in DOMAIN Scenario(c) THEN Scenario(c).failed ELSE {0}

\* What __init__ sets before connect_instrument, and the threads, sockets
\* and clients that do not exist yet; the counters after the reads so far.
InitState(c) ==
  /\ cfg = c
  /\ round = 1
  /\ ci = 1
  /\ clients = <<>>
  /\ fast_mode \in Scenario(c).fast
  /\ error_count \in FailedBefore(c)
  /\ read_count = error_count
  /\ pc = [s \in Sessions |-> "idle"]
  /\ sock = [s \in Sessions |-> "closed"]
  /\ peer = [s \in Sessions |-> "closed"]
  /\ cmd = [s \in Sessions |-> NoCmd]
  /\ rid = [s \in Sessions |-> 0]
  /\ idx = [s \in Sessions |-> 0]
  /\ br = [s \in Sessions |-> FALSE]
  /\ reg = [s \in Sessions |-> 0]
  /\ results = [s \in Sessions |-> <<>>]
  /\ stat = [s \in Sessions |-> <<>>]
  /\ resp = [s \in Sessions |-> NoResp]
  /\ wire = [s \in Sessions |-> <<>>]
  /\ back = [s \in Sessions |-> <<>>]
  /\ cpc = [s \in Sessions |-> "closed"]
  /\ creq = [s \in Sessions |-> 0]
  /\ cgot = [s \in Sessions |-> NoGot]
  /\ nsent = [s \in Sessions |-> 0]
  /\ snap = <<>>
  /\ now = 0
  /\ last_stats_time = 0
  /\ lastCaller = 0
  /\ lastArg = NoArg
  /\ seen = [s \in Sessions |-> {}]
  /\ trace = [s \in Sessions |-> <<>>]
  /\ nreads = read_count
  /\ nfails = error_count
  /\ log = <<>>
  /\ NoThread
  /\ Listening

\* __init__, connect_instrument and start_server up to the accept loop.
InitServer(c) ==
  /\ InitState(c)
  /\ boot = Boot("up", 0)
  /\ srv = "accept"
  /\ running = TRUE
  /\ inst = ConnectInstrument(fast_mode)
  /\ lsock = "open"
  /\ mon = "sleep"

(* ------------------------- frames and helpers -------------------------- *)
srvVars == <<cfg, boot, extVars, srv, round, ci, running, clients, lsock>>
netVars == <<sock, peer, wire, back, cpc, creq, cgot, nsent>>
monVars == <<mon, snap, now, last_stats_time>>
counters == <<read_count, error_count>>
locals == <<br, reg, results, stat>>

Alive == srv # "exited"

\* What a status record says of the instrument i, the flag fm and the
\* counters rc and ec.
View(i, fm, rc, ec) ==
  [output |-> i.output, source_function |-> i.func, fast_mode |-> fm,
   read_count |-> rc, error_count |-> ec]
\* The handler of s is inside the get_status branch.
Observing(s) == pc[s] = "exec" /\ cmd[s].type = "get_status"
\* A step after which instrument, flag and counters are i, fm, rc, ec: every
\* get_status in progress could have reported that.
See(i, fm, rc, ec) ==
  seen' = [s \in Sessions |->
             IF Observing(s) THEN seen[s] \cup {View(i, fm, rc, ec)}
             ELSE seen[s]]

\* One instrument call of thread s with outcome o; a is the level the
\* command text carries, NoArg when it carries none.
CallWith(s, c, a, o) ==
  /\ inst' = IF o = "ok" THEN InstWrite(inst, c) ELSE inst
  /\ lastCaller' = s
  /\ lastArg' = a
  /\ See(IF o = "ok" THEN InstWrite(inst, c) ELSE inst,
         fast_mode, read_count, error_count)
  /\ trace' = IF s \in Sessions
              THEN [trace EXCEPT ![s] = Append(@, [c |-> c, o |-> o])]
              ELSE trace
Call(s, c, o) == CallWith(s, c, NoArg, o)
NoCall == UNCHANGED <<inst, lastCaller, lastArg, seen, trace>>
\* A step that stores into the flag or a counter and calls nothing.
Store(fm, rc, ec) ==
  /\ UNCHANGED <<inst, lastCaller, lastArg, trace>>
  /\ See(inst, fm, rc, ec)
hist == <<nreads, nfails, log>>

Advance(s, i, p, r) ==
  /\ idx' = [idx EXCEPT ![s] = i]
  /\ pc' = [pc EXCEPT ![s] = p]
  /\ resp' = [resp EXCEPT ![s] = r]
Goto(s, i) == Advance(s, i, "exec", resp[s])
\* Mutant: an exception leaves process_command and ends the handler.
ReturnRaises(s, r) ==
  Advance(s, 0, IF r.status = "error" THEN "fin" ELSE "send", r)
\* process_command returns r: handle_client goes on to send it.
Return(s, r) == Advance(s, 0, "send", r)

\* Frame of a step of process_command.
ExecFrame == UNCHANGED <<srvVars, netVars, monVars, cmd, rid>>
instVars == <<inst, lastCaller, lastArg, seen, trace>>

\* The branches of process_command that call cmd_data.get.
ReadsData ==
  {"write", "query", "setup_voltage_source", "setup_current_source",
   "output", "voltage_sweep", "set_fast_mode"}
\* The request of s has a 'data' member that is not an object, and its
\* branch reads it.
BadData(s) == "data" \in DOMAIN cmd[s] /\ cmd[s].type \in ReadsData

InExec(s, types) ==
  Alive /\ pc[s] = "exec" /\ cmd[s].type \in types /\ ~BadData(s)

(* -------------------------- process_command --------------------------- *)
\* Mutant: a write that raises is passed over and the next one issued.
RunWritesOn(s, calls) ==
  /\ \E o \in Outcomes(inst) :
       /\ Call(s, calls[idx[s] + 1], o)
       /\ IF idx[s] + 1 < Len(calls) THEN Goto(s, idx[s] + 1)
          ELSE IF o # "ok" THEN Return(s, Failure(o))
          ELSE Return(s, Success("message", cmd[s].type, <<>>))
  /\ UNCHANGED <<fast_mode, counters, locals>>
  /\ ExecFrame /\ UNCHANGED hist

\* A command that is a fixed list of writes: each write is one step; an
\* exception of any of them is caught by process_command's except clause.
RunWrites(s, calls) ==
  /\ \E o \in Outcomes(inst) :
       /\ Call(s, calls[idx[s] + 1], o)
       /\ IF o # "ok" THEN Return(s, Failure(o))
          ELSE IF idx[s] + 1 = Len(calls)
               THEN Return(s, Success("message", cmd[s].type, <<>>))
          ELSE Goto(s, idx[s] + 1)
  /\ UNCHANGED <<fast_mode, counters, locals>>
  /\ ExecFrame /\ UNCHANGED hist

Write(s) ==
  /\ InExec(s, {"write"})
  /\ RunWrites(s, WriteCalls(cmd[s]))

SetupVoltageSource(s) ==
  /\ InExec(s, {"setup_voltage_source"})
  /\ RunWrites(s, WriteCalls(cmd[s]))

SetupCurrentSource(s) ==
  /\ InExec(s, {"setup_current_source"})
  /\ RunWrites(s, WriteCalls(cmd[s]))

Output(s) ==
  /\ InExec(s, {"output"})
  /\ RunWrites(s, WriteCalls(cmd[s]))

Query(s) ==
  /\ InExec(s, {"query"})
  /\ \E o \in Outcomes(inst) :
       /\ Call(s, cmd[s].scpi, o)
       /\ IF o = "ok"
          THEN Return(s, Success("data", "query", InstQuery(inst, cmd[s].scpi)))
          ELSE Return(s, Failure(o))
  /\ UNCHANGED <<fast_mode, counters, locals>>
  /\ ExecFrame /\ UNCHANGED hist

\* A ':READ?' reply is the sequence of its comma-separated fields; float()
\* gives the number each field spells.  Voltages are whole volts, currents
\* whole multiples of 1e-12 A.  A number of a response is either such an
\* integer (voltage, current) or a quotient n / d kept as the pair; None
\* is the pair with d = 0.
Num(x) == [n |-> x, d |-> 1]
None == [n |-> 0, d |-> 0]
Abs(x) == IF x < 0 THEN -x ELSE x

\* The replies the instrument can give: n fields, voltage v, current c, and
\* the instrument's own resistance and power readings.
Volts == IF "volts" \in DOMAIN Scn THEN Scn.volts ELSE {1}
Currents == IF "currents" \in DOMAIN Scn THEN Scn.currents ELSE {0, MaxAmp}
Reply(n, v, c) == SubSeq(<<v, c, 7, 9>>, 1, n)

\* resistance = 1e9: one volt per 1000 units of current.
OpenCircuit == [n |-> 1, d |-> 1000]
\* Mutant: a current of exactly epsilon is divided by.
ResistanceAtEpsilon(v, c) ==
  IF Abs(c) >= Epsilon THEN [n |-> v, d |-> c] ELSE OpenCircuit
\* if abs(current) > 1e-12: voltage / current  else: 1e9
Resistance(v, c) ==
  IF Abs(c) > Epsilon THEN [n |-> v, d |-> c] ELSE OpenCircuit
\* power = voltage * current
Power(v, c) == Num(v * c)

\* Mutant: a field the reply does not have is reported as 0.
FieldOrZero(values, k) ==
  IF Len(values) > k - 1 THEN Num(values[k]) ELSE Num(0)
\* float(values[k-1]) if len(values) > k-1 else None
FieldOrNone(values, k) ==
  IF Len(values) > k - 1 THEN Num(values[k]) ELSE None

\* Mutant: the fast-mode measurement leaves the power out.
MeasurementNoPower(fm, values) ==
  IF fm
  THEN [voltage |-> values[1], current |-> values[2],
        resistance |-> Resistance(values[1], values[2]),
        timestamp |-> "now", read_time_ms |-> "elapsed"]
  ELSE [voltage |-> values[1], current |-> values[2],
        resistance |-> FieldOrNone(values, 3),
        power |-> FieldOrNone(values, 4),
        timestamp |-> "now", read_time_ms |-> "elapsed"]
\* The measurement built from the fields of a reply that has at least two.
Measurement(fm, values) ==
  IF fm
  THEN [voltage |-> values[1], current |-> values[2],
        resistance |-> Resistance(values[1], values[2]),
        power |-> Power(values[1], values[2]),
        timestamp |-> "now", read_time_ms |-> "elapsed"]
  ELSE [voltage |-> values[1], current |-> values[2],
        resistance |-> FieldOrNone(values, 3),
        power |-> FieldOrNone(values, 4),
        timestamp |-> "now", read_time_ms |-> "elapsed"]

\* 'read':  self.read_count += 1  is a load and a store; then the query; on
\* an exception  self.error_count += 1  (load, store), the log record and
\* the Failure.
ReadLoadCount(s) ==
  /\ InExec(s, {"read"}) /\ idx[s] = 0
  /\ reg' = [reg EXCEPT ![s] = read_count]
  /\ Goto(s, 1)
  /\ NoCall
  /\ UNCHANGED <<fast_mode, counters, br, results, stat>>
  /\ ExecFrame /\ UNCHANGED hist

ReadStoreCount(s) ==
  /\ InExec(s, {"read"}) /\ idx[s] = 1
  /\ read_count' = reg[s] + 1
  /\ nreads' = nreads + 1
  /\ reg' = [reg EXCEPT ![s] = 0]
  /\ Goto(s, 2)
  /\ Store(fast_mode, reg[s] + 1, error_count)
  /\ UNCHANGED <<fast_mode, error_count, br, results, stat, nfails, log>>
  /\ ExecFrame

ReadQuery(s) ==
  /\ InExec(s, {"read"}) /\ idx[s] = 2
  /\ \E o \in Outcomes(inst), n \in Scn.fields, v \in Volts, c \in Currents :
       LET values == IF o = "ok" THEN Reply(n, v, c) ELSE <<>>
       IN /\ Call(s, ":READ?", o)
          /\ stat' = [stat EXCEPT ![s] = values]
          /\ IF Len(values) >= 2
             THEN Return(s, Success("measurement", "read",
                                    Measurement(fast_mode, values)))
             ELSE Advance(s, 3, "exec",
                          Failure(IF o = "ok" THEN "index" ELSE o))
  /\ UNCHANGED <<fast_mode, counters, br, reg, results>>
  /\ ExecFrame /\ UNCHANGED hist

ReadLoadError(s) ==
  /\ InExec(s, {"read"}) /\ idx[s] = 3
  /\ reg' = [reg EXCEPT ![s] = error_count]
  /\ Goto(s, 4)
  /\ NoCall
  /\ UNCHANGED <<fast_mode, counters, br, results, stat>>
  /\ ExecFrame /\ UNCHANGED hist

ReadStoreError(s) ==
  /\ InExec(s, {"read"}) /\ idx[s] = 4
  /\ error_count' = reg[s] + 1
  /\ nfails' = nfails + 1
  /\ reg' = [reg EXCEPT ![s] = 0]
  /\ Goto(s, 5)
  /\ Store(fast_mode, read_count, reg[s] + 1)
  /\ UNCHANGED <<fast_mode, read_count, br, results, stat, nreads, log>>
  /\ ExecFrame

\* "timeout" in error_msg.lower() or "VI_ERROR_TMO" in error_msg
IsTimeout(msg) == msg = "timeout"
\* Mutant: every timeout is logged.
LogsTimeoutAlways(n) == TRUE
\* if self.error_count % 20 == 1
LogsTimeout(n) == n % LogStride = 1

\* The log record of a failed read: a warning with the counter for a
\* timeout, an error otherwise.
LogRecord(msg, n) ==
  IF IsTimeout(msg) THEN [level |-> "warning", msg |-> msg, count |-> n]
  ELSE [level |-> "error", msg |-> msg, count |-> 0]

\* The rest of the except clause: the message is classified, self.error_count
\* is read again for the stride test, the record is logged or not, and the
\* Failure is returned.
ReadLog(s) ==
  /\ InExec(s, {"read"}) /\ idx[s] = 5
  /\ log' = IF IsTimeout(resp[s].msg) /\ ~LogsTimeout(error_count)
            THEN log
            ELSE Append(log, LogRecord(resp[s].msg, error_count))
  /\ Return(s, resp[s])
  /\ NoCall
  /\ UNCHANGED <<fast_mode, counters, locals, nreads, nfails>>
  /\ ExecFrame

\* 'voltage_sweep': five set-up writes (the last one ':OUTP ON'), the list of
\* levels (a division by steps - 1), per level a write and a query, and
\* ':OUTP OFF'.  Any exception leaves through the except clause.
NSetup == Len(SweepSetup)

\* The result entry of step j (0-based): the level commanded and what was
\* measured there.
SweepEntry(c, j) == [step |-> j, set_voltage |-> SweepVoltages(c)[j + 1]]

SweepConfigure(s) ==
  /\ InExec(s, {"voltage_sweep"}) /\ idx[s] < NSetup
  /\ \E o \in Outcomes(inst) :
       /\ Call(s, SweepSetup[idx[s] + 1], o)
       /\ IF o # "ok" THEN Return(s, Failure(o))
          ELSE IF idx[s] + 1 = NSetup /\ cmd[s].steps = 1
               THEN Return(s, Failure("division by zero"))
          ELSE Goto(s, idx[s] + 1)
  /\ UNCHANGED <<fast_mode, counters, locals>>
  /\ ExecFrame /\ UNCHANGED hist

SweepSetLevel(s) ==
  /\ InExec(s, {"voltage_sweep"})
  /\ idx[s] >= NSetup /\ idx[s] < NSetup + 2 * SweepLen(cmd[s])
  /\ (idx[s] - NSetup) % 2 = 0
  /\ \E o \in Outcomes(inst) :
       /\ CallWith(s, ":SOUR:VOLT",
                   SweepVoltages(cmd[s])[(idx[s] - NSetup) \div 2 + 1], o)
       /\ IF o = "ok" THEN Goto(s, idx[s] + 1) ELSE Return(s, Failure(o))
       /\ results' = [results EXCEPT ![s] = IF o = "ok" THEN @ ELSE <<>>]
  /\ UNCHANGED <<fast_mode, counters, br, reg, stat>>
  /\ ExecFrame /\ UNCHANGED hist

SweepMeasure(s) ==
  /\ InExec(s, {"voltage_sweep"})
  /\ idx[s] >= NSetup /\ idx[s] < NSetup + 2 * SweepLen(cmd[s])
  /\ (idx[s] - NSetup) % 2 = 1
  /\ \E o \in Outcomes(inst), n \in Scn.fields :
       /\ Call(s, ":READ?", o)
       /\ IF o = "ok" /\ n >= 2
          THEN /\ Goto(s, idx[s] + 1)
               /\ results' = [results EXCEPT ![s] =
                    Append(@, SweepEntry(cmd[s], (idx[s] - NSetup) \div 2))]
          ELSE /\ Return(s, Failure(IF o = "ok" THEN "index" ELSE o))
               /\ results' = [results EXCEPT ![s] = <<>>]
  /\ UNCHANGED <<fast_mode, counters, br, reg, stat>>
  /\ ExecFrame /\ UNCHANGED hist

SweepOutputOff(s) ==
  /\ InExec(s, {"voltage_sweep"})
  /\ idx[s] = NSetup + 2 * SweepLen(cmd[s])
  /\ \E o \in Outcomes(inst) :
       /\ Call(s, ":OUTP OFF", o)
       /\ IF o = "ok" THEN Return(s, Success("sweep", "sweep", results[s]))
          ELSE Return(s, Failure(o))
  /\ results' = [results EXCEPT ![s] = <<>>]
  /\ UNCHANGED <<fast_mode, counters, br, reg, stat>>
  /\ ExecFrame /\ UNCHANGED hist

\* 'get_status': three queries, then the record, which reads self.fast_mode,
\* self.read_count and self.error_count.
StatusCalls == <<"*IDN?", ":OUTP?", ":SOUR:FUNC?">>

GetStatusQuery(s) ==
  /\ InExec(s, {"get_status"}) /\ idx[s] < Len(StatusCalls)
  /\ \E o \in Outcomes(inst) :
       /\ Call(s, StatusCalls[idx[s] + 1], o)
       /\ IF o = "ok"
          THEN /\ Goto(s, idx[s] + 1)
               /\ stat' = [stat EXCEPT ![s] =
                    Append(@, InstQuery(inst, StatusCalls[idx[s] + 1]))]
          ELSE /\ Return(s, Failure(o))
               /\ stat' = [stat EXCEPT ![s] = <<>>]
  /\ UNCHANGED <<fast_mode, counters, br, reg, results>>
  /\ ExecFrame /\ UNCHANGED hist

\* Mutant: the reply of ':OUTP?' is compared with "ON".
OutputNameOfOn(reply) == IF reply = "ON" THEN "ON" ELSE "OFF"
\* "ON" if output_state == "1" else "OFF"
OutputName(reply) == IF reply = "1" THEN "ON" ELSE "OFF"

GetStatusBuild(s) ==
  /\ InExec(s, {"get_status"}) /\ idx[s] = Len(StatusCalls)
  /\ Return(s, Success("status", "get_status",
       [output |-> OutputName(stat[s][2]),
        source_function |-> stat[s][3],
        fast_mode |-> fast_mode,
        read_count |-> read_count,
        error_count |-> error_count]))
  /\ stat' = [stat EXCEPT ![s] = <<>>]
  /\ NoCall
  /\ UNCHANGED <<fast_mode, counters, br, reg, results>>
  /\ ExecFrame /\ UNCHANGED hist

\* 'reset': '*RST', '*CLS', then, if self.fast_mode, the fast configuration.
ResetCalls == <<"*RST", "*CLS">>

Reset(s) ==
  /\ InExec(s, {"reset"})
  /\ IF idx[s] = Len(ResetCalls) /\ ~fast_mode
     THEN /\ Return(s, Success("message", "reset", <<>>))
          /\ NoCall
     ELSE LET calls == ResetCalls \o FastConfig
          IN \E o \in Outcomes(inst) :
               /\ Call(s, calls[idx[s] + 1], o)
               /\ IF o # "ok" THEN Return(s, Failure(o))
                  ELSE IF idx[s] + 1 = Len(calls)
                       THEN Return(s, Success("message", "reset", <<>>))
                  ELSE Goto(s, idx[s] + 1)
  /\ UNCHANGED <<fast_mode, counters, locals>>
  /\ ExecFrame /\ UNCHANGED hist

\* 'set_fast_mode': the flag is stored, read back for the branch, and read
\* again for the message.
SetFastModeStore(s) ==
  /\ InExec(s, {"set_fast_mode"}) /\ idx[s] = 0
  /\ fast_mode' = cmd[s].enabled
  /\ Goto(s, 1)
  /\ Store(cmd[s].enabled, read_count, error_count)
  /\ UNCHANGED <<counters, locals>>
  /\ ExecFrame /\ UNCHANGED hist

SetFastModeApply(s) ==
  /\ InExec(s, {"set_fast_mode"}) /\ idx[s] >= 1
  /\ LET b == IF idx[s] = 1 THEN fast_mode ELSE br[s]
         calls == IF b THEN FastConfig ELSE StandardConfig
         last == idx[s] = Len(calls)
     IN \E o \in Outcomes(inst) :
          /\ Call(s, calls[idx[s]], o)
          /\ IF o # "ok" THEN Return(s, Failure(o))
             ELSE IF last
                  THEN Return(s, Success("message",
                         IF fast_mode THEN "enabled" ELSE "disabled", <<>>))
             ELSE Goto(s, idx[s] + 1)
          /\ br' = [br EXCEPT ![s] = (o = "ok") /\ ~last /\ b]
  /\ UNCHANGED <<fast_mode, counters, reg, results, stat>>
  /\ ExecFrame /\ UNCHANGED hist

\* Any other type: the else branch, no instrument call.
\* Mutant: the AttributeError of cmd_data.get leaves process_command.
DataErrorRaises(s) ==
  /\ Alive /\ pc[s] = "exec" /\ BadData(s)
  /\ Advance(s, 0, "fin", NoResp)
  /\ NoCall
  /\ UNCHANGED <<fast_mode, counters, locals>>
  /\ ExecFrame /\ UNCHANGED hist

\* cmd_data.get(...) on a 'data' that is null, a number, a string or a list
\* raises AttributeError as the first statement of the branch; the except
\* clause of process_command answers with its text.
DataError(s) ==
  /\ Alive /\ pc[s] = "exec" /\ BadData(s)
  /\ Return(s, Failure("object has no attribute 'get'"))
  /\ NoCall
  /\ UNCHANGED <<fast_mode, counters, locals>>
  /\ ExecFrame /\ UNCHANGED hist

KnownTypes ==
  {"write", "query", "read", "setup_voltage_source", "setup_current_source",
   "output", "voltage_sweep", "get_status", "reset", "set_fast_mode"}

\* Mutant: the message does not say which type was received.
UnknownMessageBare(t) == "Unknown command type"
\* f"Unknown command type: {cmd_type}"
UnknownMessage(t) == "Unknown command type: " \o t

UnknownCommand(s) ==
  /\ Alive /\ pc[s] = "exec" /\ cmd[s].type \notin KnownTypes
  /\ Return(s, Failure(UnknownMessage(cmd[s].type)))
  /\ NoCall
  /\ UNCHANGED <<fast_mode, counters, locals>>
  /\ ExecFrame /\ UNCHANGED hist

ProcessCommand(s) ==
  \/ Write(s) \/ Query(s)
  \/ ReadLoadCount(s) \/ ReadStoreCount(s) \/ ReadQuery(s)
  \/ ReadLoadError(s) \/ ReadStoreError(s) \/ ReadLog(s)
  \/ SetupVoltageSource(s) \/ SetupCurrentSource(s) \/ Output(s)
  \/ SweepConfigure(s) \/ SweepSetLevel(s) \/ SweepMeasure(s)
  \/ SweepOutputOff(s)
  \/ GetStatusQuery(s) \/ GetStatusBuild(s)
  \/ Reset(s)
  \/ SetFastModeStore(s) \/ SetFastModeApply(s)
  \/ UnknownCommand(s)

(* ------------------------------ clients ------------------------------- *)
\* Keithley2400Client.send_command: one send of the request, then one
\* recv(4096) whose bytes are taken to be the whole response.
\* The k-th request of a client: the k-th command of the scenario's script,
\* or any command of the scenario when it has none.
Requests(k) ==
  IF "script" \in DOMAIN Scn THEN {Scn.script[k]} ELSE Scn.cmds

ClientSend(s) ==
  /\ Alive /\ cpc[s] = "ready" /\ creq[s] < Scn.maxReq
  /\ \E c \in Requests(creq[s] + 1) :
       wire' = [wire EXCEPT ![s] =
                  @ \o Fragments(creq[s] + 1, c, Scn.reqFrags)]
  /\ creq' = [creq EXCEPT ![s] = @ + 1]
  /\ cpc' = [cpc EXCEPT ![s] = "waiting"]
  /\ UNCHANGED <<srvVars, monVars, fast_mode, counters, instVars, hist,
                 pc, cmd, rid, idx, resp, locals, sock, peer, back, cgot,
                 nsent>>

\* What send_command returns for the bytes of one recv: the decoded
\* response, or its own "Communication error" when json.loads fails.
ClientDecode(s, data) ==
  IF Whole(data)
  THEN [for |-> creq[s], ans |-> data[1].rid, body |-> data[1].body]
  ELSE [for |-> creq[s], ans |-> 0, body |-> Failure("Communication error")]

ClientRecv(s) ==
  /\ Alive /\ cpc[s] = "waiting"
  /\ \/ /\ back[s] # <<>>
        /\ \E n \in 1..Min(Len(back[s]), Scn.crecvMax) :
             /\ cgot' = [cgot EXCEPT ![s] = ClientDecode(s, Prefix(back[s], n))]
             /\ back' = [back EXCEPT ![s] = Rest(@, n)]
     \/ /\ back[s] = <<>> /\ sock[s] = "closed"
        /\ cgot' = [cgot EXCEPT ![s] = ClientDecode(s, <<>>)]
        /\ back' = back
  /\ cpc' = [cpc EXCEPT ![s] = "ready"]
  /\ UNCHANGED <<srvVars, monVars, fast_mode, counters, instVars, hist,
                 pc, cmd, rid, idx, resp, locals, sock, peer, wire, creq,
                 nsent>>

\* disconnect(), or the client process going away.
ClientClose(s) ==
  /\ Alive /\ cpc[s] \in {"ready", "waiting"}
  /\ cpc' = [cpc EXCEPT ![s] = "closed"]
  /\ peer' = [peer EXCEPT ![s] = "closed"]
  /\ UNCHANGED <<srvVars, monVars, fast_mode, counters, instVars, hist,
                 pc, cmd, rid, idx, resp, locals, sock, wire, back, creq,
                 cgot, nsent>>

(* --------------------------- handle_client ---------------------------- *)
\* Mutant: the loop runs the handler itself, so it is back in accept() only
\* when no handler is running.
AcceptInline(s) ==
  /\ srv = "accept" /\ running /\ lsock = "open"
  /\ s \in Scn.sessions
  /\ pc[s] = "idle" /\ \A t \in Sessions : pc[t] \in {"idle", "done"}
  /\ pc' = [pc EXCEPT ![s] = "start"]
  /\ sock' = [sock EXCEPT ![s] = "open"]
  /\ peer' = [peer EXCEPT ![s] = "open"]
  /\ cpc' = [cpc EXCEPT ![s] = "ready"]
  /\ UNCHANGED <<srvVars, monVars, fast_mode, counters, instVars, hist,
                 cmd, rid, idx, resp, locals, wire, back, creq, cgot, nsent>>

\* start_server's loop: accept() and the start of the handler thread.
Accept(s) ==
  /\ srv = "accept" /\ running /\ lsock = "open"
  /\ s \in Scn.sessions
  /\ pc[s] = "idle" /\ \A t \in Sessions : t < s => pc[t] # "idle"
  /\ pc' = [pc EXCEPT ![s] = "start"]
  /\ sock' = [sock EXCEPT ![s] = "open"]
  /\ peer' = [peer EXCEPT ![s] = "open"]
  /\ cpc' = [cpc EXCEPT ![s] = "ready"]
  /\ UNCHANGED <<srvVars, monVars, fast_mode, counters, instVars, hist,
                 cmd, rid, idx, resp, locals, wire, back, creq, cgot, nsent>>

\* handle_client: self.clients.append(client_socket), first loop test.
Register(s) ==
  /\ Alive /\ pc[s] = "start"
  /\ clients' = Append(clients, s)
  /\ pc' = [pc EXCEPT ![s] = IF running THEN "recv" ELSE "fin"]
  /\ UNCHANGED <<cfg, boot, extVars, srv, round, ci, running, lsock, netVars,
                 monVars, fast_mode, counters, instVars, hist, cmd, rid,
                 idx, resp, locals>>

\* client_socket.recv(1024).decode, json.loads, command.get: bytes that do
\* not decode raise out of the loop; text that does not parse is answered
\* "Invalid JSON format"; a value without get() is answered with the
\* exception's text; a request starts process_command.  No bytes from a
\* closed peer end the loop; a closed socket raises.
Recv(s) ==
  /\ Alive /\ pc[s] = "recv"
  /\ \/ /\ sock[s] = "open" /\ wire[s] # <<>>
        /\ \E n \in 1..Min(Len(wire[s]), Scn.recvMax) :
             LET data == Prefix(wire[s], n)
             IN /\ wire' = [wire EXCEPT ![s] = Rest(@, n)]
                /\ rid' = [rid EXCEPT ![s] = data[1].rid]
                /\ IF ~Decodes(data)
                   THEN /\ cmd' = [cmd EXCEPT ![s] = NoCmd]
                        /\ Advance(s, 0, "fin", NoResp)
                   ELSE IF ~Parses(data)
                   THEN /\ cmd' = [cmd EXCEPT ![s] = NoCmd]
                        /\ Advance(s, 0, "send", Failure("Invalid JSON format"))
                   ELSE IF IsGarbage(data[1].body, "object")
                   THEN /\ cmd' = [cmd EXCEPT ![s] = NoCmd]
                        /\ Advance(s, 0, "send",
                                   Failure("object has no attribute 'get'"))
                   ELSE /\ cmd' = [cmd EXCEPT ![s] = Decoded(data[1].body)]
                        /\ Advance(s, 0, "exec", NoResp)
     \/ /\ \/ sock[s] = "closed"
           \/ wire[s] = <<>> /\ peer[s] = "closed"
        /\ Advance(s, 0, "fin", NoResp)
        /\ UNCHANGED <<wire, rid, cmd>>
  /\ seen' = [seen EXCEPT ![s] =
               IF pc'[s] = "exec" /\ cmd'[s].type = "get_status"
               THEN {View(inst, fast_mode, read_count, error_count)}
               ELSE {}]
  /\ UNCHANGED <<srvVars, monVars, fast_mode, counters, inst, lastCaller,
                 lastArg, trace, hist, locals, sock, peer, back, cpc, creq,
                 cgot, nsent>>

\* The bytes of the response and of the error text of a Failure fit one
\* fragment; a sweep's or a status record's data take Scn.respFrags.
RespFrags(r) == IF r.status = "success" /\ r.kind \in {"sweep", "status"}
                THEN Scn.respFrags ELSE 1

\* The connection of s can take k more fragments: the socket is blocking,
\* so send() returns only when the bytes are queued.
Room(s, k) ==
  "sockBuf" \in DOMAIN Scn => Len(back[s]) + k <= Scn.sockBuf

\* client_socket.send(json.dumps(response)), then the loop test.  A send on
\* a closed connection raises; the handler in the except clause sends again,
\* which raises out of the loop.  What process_command had read is gone.
Send(s) ==
  /\ Alive /\ pc[s] = "send"
  /\ IF sock[s] = "open" /\ peer[s] = "open"
     THEN /\ Room(s, RespFrags(resp[s]))
          /\ back' = [back EXCEPT ![s] =
                        @ \o Fragments(rid[s], resp[s], RespFrags(resp[s]))]
          /\ nsent' = [nsent EXCEPT ![s] = @ + 1]
          /\ pc' = [pc EXCEPT ![s] = IF running THEN "recv" ELSE "fin"]
     ELSE /\ pc' = [pc EXCEPT ![s] = "fin"]
          /\ UNCHANGED <<back, nsent>>
  /\ trace' = [trace EXCEPT ![s] = <<>>]
  /\ seen' = [seen EXCEPT ![s] = {}]
  /\ stat' = [stat EXCEPT ![s] = <<>>]
  /\ UNCHANGED <<srvVars, monVars, fast_mode, counters, inst, lastCaller,
                 lastArg, hist, cmd, rid, idx, resp, br, reg, results, sock,
                 peer, wire, cpc, creq, cgot>>

\* finally: close the socket and take it off self.clients.
Finish(s) ==
  /\ Alive /\ pc[s] = "fin"
  /\ sock' = [sock EXCEPT ![s] = "closed"]
  /\ clients' = IF InSeq(s, clients) THEN Remove(clients, s) ELSE clients
  /\ pc' = [pc EXCEPT ![s] = "done"]
  /\ cmd' = [cmd EXCEPT ![s] = NoCmd]
  /\ resp' = [resp EXCEPT ![s] = NoResp]
  /\ UNCHANGED <<cfg, boot, extVars, srv, round, ci, running, lsock, monVars,
                 fast_mode, counters, instVars, hist, rid, idx, locals,
                 peer, wire, back, cpc, creq, cgot, nsent>>

(* ---------------------------- main thread ----------------------------- *)
sessVars == <<pc, cmd, rid, idx, resp, locals>>

\* KeyboardInterrupt in accept(): start_server's finally runs cleanup().
Interrupt ==
  /\ srv = "accept"
  /\ srv' = "cl_run"
  /\ UNCHANGED <<cfg, boot, extVars, round, ci, running, clients, lsock, netVars,
                 monVars, sessVars, fast_mode, counters, instVars, hist>>

\* stop_server(): the flag, the listening socket; accept() raises, the loop
\* ends and the finally clause runs cleanup().
StopServer ==
  /\ srv = "accept"
  /\ running' = FALSE
  /\ lsock' = "closed"
  /\ srv' = "cl_run"
  /\ UNCHANGED <<cfg, boot, extVars, round, ci, clients, netVars, monVars, sessVars,
                 fast_mode, counters, instVars, hist>>

\* cleanup(): self.running = False.
CleanupFlag ==
  /\ srv = "cl_run"
  /\ running' = FALSE
  /\ ci' = 1
  /\ srv' = "cl_clients"
  /\ UNCHANGED <<cfg, boot, extVars, round, clients, lsock, netVars, monVars,
                 sessVars, fast_mode, counters, instVars, hist>>

\* cleanup(): for client in self.clients: client.close(); the list iterator
\* is an index into the list as it is now.  Then the listening socket.
CleanupClients ==
  /\ srv = "cl_clients"
  /\ IF ci <= Len(clients)
     THEN /\ sock' = [sock EXCEPT ![clients[ci]] = "closed"]
          /\ ci' = ci + 1
          /\ UNCHANGED <<srv, lsock>>
     ELSE /\ lsock' = "closed"
          /\ srv' = "cl_off"
          /\ UNCHANGED <<sock, ci>>
  /\ UNCHANGED <<cfg, boot, extVars, round, running, clients, peer, wire, back, cpc,
                 creq, cgot, nsent, monVars, sessVars, fast_mode, counters,
                 instVars, hist>>

\* The end of one cleanup(): start_server's is followed by the one in
\* main's finally; after that one the process ends, and with it the daemon
\* threads.
CleanupEnd == IF round = 1 THEN "cl_run" ELSE "exited"

\* cleanup(): the instrument block.  ':OUTP OFF', the standard settings if
\* self.fast_mode, close(); an exception of any of them skips the rest.
CleanupCalls == <<":OUTP OFF", ":SYST:AZER ON", ":DISP:ENAB ON">>

CleanupWrite ==
  /\ srv \in {"cl_off", "cl_az", "cl_disp"}
  /\ LET k == CASE srv = "cl_off" -> 1 [] srv = "cl_az" -> 2 [] OTHER -> 3
     IN \E o \in Outcomes(inst) :
          /\ Call(0, CleanupCalls[k], o)
          /\ IF o # "ok"
             THEN /\ srv' = CleanupEnd
                  /\ round' = 2
             ELSE /\ srv' = CASE k = 1 -> IF fast_mode THEN "cl_az"
                                          ELSE "cl_close"
                              [] k = 2 -> "cl_disp"
                              [] OTHER -> "cl_close"
                  /\ round' = round
  /\ UNCHANGED <<cfg, boot, extVars, ci, running, clients, lsock, netVars, monVars,
                 sessVars, fast_mode, counters, hist>>

CleanupClose ==
  /\ srv = "cl_close"
  /\ inst' = [inst EXCEPT !.closed = TRUE]
  /\ srv' = CleanupEnd
  /\ round' = 2
  /\ UNCHANGED <<cfg, boot, extVars, ci, running, clients, lsock, netVars, monVars,
                 sessVars, fast_mode, counters, lastCaller, lastArg, seen, trace,
                 hist>>

(* ------------------------------ start-up ------------------------------ *)
\* The instrument as the process finds it: as a reset leaves it, or with the
\* output on and the current source selected.
PowerOn ==
  {InstDefault, [InstDefault EXCEPT !.output = "ON", !.func = "CURR"]}

\* The process before main() constructs the server.
InitProcess(c) ==
  /\ InitState(c)
  /\ boot = Boot("pending", 0)
  /\ srv = "open"
  /\ running = FALSE
  /\ inst \in PowerOn
  /\ lsock = "closed"
  /\ mon = "none"

\* Mutant: connect_instrument logs the exception and returns.
ConnectFailsOn == "bind"
\* connect_instrument's except clause re-raises: __init__ raises, and main,
\* which constructs the server outside its try, ends.
ConnectFails == "exited"

\* pyvisa.ResourceManager().open_resource(self.gpib_address)
OpenResource ==
  /\ srv = "open"
  /\ \E o \in {"ok", "error"} :
       /\ boot' = Boot(IF o = "ok" THEN "pending" ELSE "instrument", 0)
       /\ srv' = IF o = "ok" THEN "connect" ELSE ConnectFails
  /\ NoCall
  /\ UNCHANGED <<cfg, extVars, round, ci, running, clients, lsock, netVars, monVars,
                 sessVars, fast_mode, counters, hist>>

\* connect_instrument: the next write or query on the opened resource.
ConnectStep ==
  /\ srv = "connect"
  /\ LET calls == ConnectCalls(fast_mode)
         k == boot.calls + 1
     IN \E o \in Outcomes(inst) :
          /\ Call(0, calls[k], o)
          /\ boot' = Boot(IF o = "ok" THEN "pending" ELSE "instrument", k)
          /\ srv' = IF o # "ok" THEN ConnectFails
                    ELSE IF k = Len(calls) THEN "bind" ELSE "connect"
  /\ UNCHANGED <<cfg, extVars, round, ci, running, clients, lsock, netVars, monVars,
                 sessVars, fast_mode, counters, hist>>

\* start_server: socket, bind, listen, self.running = True, the statistics
\* thread.  An exception goes to the except clause, and the finally clause
\* runs cleanup().
Bind ==
  /\ srv = "bind"
  /\ \E o \in {"ok", "error"} :
       /\ boot' = Boot(IF o = "ok" THEN "up" ELSE "port", 0)
       /\ IF o = "ok"
          THEN /\ lsock' = "open"
               /\ running' = TRUE
               /\ mon' = "sleep"
               /\ srv' = "accept"
          ELSE /\ srv' = "cl_run"
               /\ UNCHANGED <<lsock, running, mon>>
  /\ NoCall
  /\ UNCHANGED <<cfg, extVars, round, ci, clients, netVars, snap, now,
                 last_stats_time, sessVars,
                 fast_mode, counters, hist>>

StartUp == OpenResource \/ ConnectStep \/ Bind

(* ------------------------- statistics reporter ------------------------ *)
\* The record of one report: the counters as read and the time since the
\* base (rate = reads / elapsed, error percentage = errors / reads * 100).
StatsRecord(rc, ec, elapsed) == [reads |-> rc, errors |-> ec, elapsed |-> elapsed]

\* stats_reporter: time.sleep(30) returns; if self.read_count > 0 the rate
\* and the error percentage are computed from the counters and logged;
\* otherwise the loop test follows.
StatsWake ==
  /\ Alive /\ mon = "sleep" /\ now < Ticks
  /\ now' = now + 1
  /\ IF read_count > 0
     THEN /\ snap' = Append(snap, StatsRecord(read_count, error_count,
                                              now + 1 - last_stats_time))
          /\ mon' = "reset_reads"
     ELSE /\ snap' = snap
          /\ mon' = IF running THEN "sleep" ELSE "done"
  /\ UNCHANGED <<srvVars, netVars, sessVars, fast_mode, counters, instVars,
                 hist, last_stats_time>>

\* self.read_count = 0
StatsResetReads ==
  /\ Alive /\ mon = "reset_reads"
  /\ read_count' = 0
  /\ mon' = "reset_errors"
  /\ Store(fast_mode, 0, error_count)
  /\ UNCHANGED <<srvVars, netVars, sessVars, fast_mode, error_count, hist,
                 snap, now, last_stats_time>>

\* Mutant: the reporter asks the instrument for its error queue.
StatsResetErrorsAsks ==
  /\ Alive /\ mon = "reset_errors"
  /\ error_count' = 0
  /\ mon' = "renew"
  /\ Call(0, ":SYST:ERR?", "ok")
  /\ UNCHANGED <<srvVars, netVars, sessVars, fast_mode, read_count, hist,
                 snap, now, last_stats_time>>

\* self.error_count = 0
StatsResetErrors ==
  /\ Alive /\ mon = "reset_errors"
  /\ error_count' = 0
  /\ mon' = "renew"
  /\ Store(fast_mode, read_count, 0)
  /\ UNCHANGED <<srvVars, netVars, sessVars, fast_mode, read_count, hist,
                 snap, now, last_stats_time>>

\* self.last_stats_time = time.time(), then the loop test.
StatsRenew ==
  /\ Alive /\ mon = "renew"
  /\ last_stats_time' = now
  /\ mon' = IF running THEN "sleep" ELSE "done"
  /\ UNCHANGED <<srvVars, netVars, sessVars, fast_mode, counters, instVars,
                 hist, snap, now>>

(* --------------------------- specifications --------------------------- *)
\* The steps of a connection that every scenario has: accept, the handler's
\* loop, the client's send_command.
Connection(s) ==
  \/ Accept(s) \/ Register(s) \/ Recv(s) \/ Send(s)
  \/ ClientSend(s) \/ ClientRecv(s)

Read(s) ==
  \/ ReadLoadCount(s) \/ ReadStoreCount(s) \/ ReadQuery(s)
  \/ ReadLoadError(s) \/ ReadStoreError(s) \/ ReadLog(s)

VoltageSweep(s) ==
  \/ SweepConfigure(s) \/ SweepSetLevel(s) \/ SweepMeasure(s)
  \/ SweepOutputOff(s)

Init == InitServer("concurrent")

Next ==
  \E s \in Sessions :
    \/ Connection(s)
    \/ Read(s) \/ SetupVoltageSource(s) \/ Output(s) \/ VoltageSweep(s)

Spec == Init /\ [][Next]_vars

InitSweep == InitServer("sweep")

NextSweep == \E s \in Sessions : Connection(s) \/ VoltageSweep(s)

SpecSweep == InitSweep /\ [][NextSweep]_vars

InitShutdown == InitServer("shutdown")

Shutdown ==
  \/ Interrupt \/ StopServer
  \/ CleanupFlag \/ CleanupClients \/ CleanupWrite \/ CleanupClose

NextShutdown ==
  \/ \E s \in Sessions :
       \/ Connection(s) \/ Finish(s) \/ ClientClose(s)
       \/ Output(s) \/ VoltageSweep(s)
  \/ Shutdown

SpecShutdown == InitShutdown /\ [][NextShutdown]_vars

InitStream == InitServer("stream")

NextStream ==
  \E s \in Sessions : Connection(s) \/ Output(s) \/ VoltageSweep(s)

SpecStream == InitStream /\ [][NextStream]_vars

\* The handler thread of a session is scheduled again and again, and every
\* instrument call it makes returns or raises; the client's recv returns
\* once bytes have arrived.
InitLive == InitServer("live")

Handler(s) == Register(s) \/ Recv(s) \/ Read(s) \/ Output(s) \/ Send(s)

NextLive ==
  \E s \in Sessions : Connection(s) \/ Read(s) \/ Output(s)

SpecLive ==
  /\ InitLive /\ [][NextLive]_vars
  /\ \A s \in Sessions : WF_vars(Handler(s)) /\ WF_vars(ClientRecv(s))

\* One session that sweeps.
InitLevels == InitServer("levels")

NextLevels == \E s \in Sessions : Connection(s) \/ VoltageSweep(s)

SpecLevels == InitLevels /\ [][NextLevels]_vars

\* Sessions that receive requests and other bytes.
InitProtocol == InitServer("protocol")

NextProtocol ==
  \E s \in Sessions :
    \/ Connection(s) \/ Finish(s)
    \/ Output(s) \/ UnknownCommand(s)

SpecProtocol == InitProtocol /\ [][NextProtocol]_vars

\* Sessions whose commands meet instrument faults.
InitFaults == InitServer("faults")

KnownCommand(s) ==
  \/ Write(s) \/ Query(s) \/ Read(s)
  \/ SetupVoltageSource(s) \/ SetupCurrentSource(s) \/ Output(s)
  \/ VoltageSweep(s)
  \/ GetStatusQuery(s) \/ GetStatusBuild(s)
  \/ Reset(s)
  \/ SetFastModeStore(s) \/ SetFastModeApply(s)

NextFaults == \E s \in Sessions : Connection(s) \/ KnownCommand(s)

SpecFaults == InitFaults /\ [][NextFaults]_vars

\* Sessions that end because their peer went away.
InitSessions == InitServer("sessions")

NextSessions ==
  \E s \in Sessions :
    \/ Connection(s) \/ Finish(s) \/ ClientClose(s)
    \/ Read(s) \/ Output(s)

SpecSessions == InitSessions /\ [][NextSessions]_vars

\* Sessions that report the status while others change it.
InitStatus == InitServer("status")

NextStatus ==
  \E s \in Sessions :
    \/ Connection(s)
    \/ GetStatusQuery(s) \/ GetStatusBuild(s) \/ Output(s) \/ Write(s)

SpecStatus == InitStatus /\ [][NextStatus]_vars

\* A session that resets the instrument and switches fast mode.
InitConfig == InitServer("config")

NextConfig ==
  \E s \in Sessions :
    \/ Connection(s)
    \/ Reset(s) \/ SetFastModeStore(s) \/ SetFastModeApply(s)

SpecConfig == InitConfig /\ [][NextConfig]_vars

\* The whole server with one session.
InitServerAll == InitServer("server")

StatsReporter ==
  StatsWake \/ StatsResetReads \/ StatsResetErrors \/ StatsRenew

NextServer ==
  \/ \E s \in Sessions :
       \/ Connection(s) \/ Finish(s) \/ ClientClose(s)
       \/ ProcessCommand(s)
  \/ Shutdown
  \/ StatsReporter

SpecServer == InitServerAll /\ [][NextServer]_vars

\* The process from its start: start-up, one session, shutdown.
InitStartup == InitProcess("startup")

NextStartup ==
  \/ StartUp
  \/ \E s \in Sessions : Connection(s) \/ Finish(s) \/ Output(s)
  \/ Shutdown

SpecStartup == InitStartup /\ [][NextStartup]_vars

\* A session that reads while the statistics reporter runs.
InitMonitor == InitServer("monitor")

NextMonitor ==
  \/ \E s \in Sessions : Connection(s) \/ Read(s)
  \/ StatsReporter

SpecMonitor == InitMonitor /\ [][NextMonitor]_vars

\* A session that takes measurements in either mode.
InitMeasure == InitServer("measure")

NextMeasure ==
  \E s \in Sessions :
    \/ Connection(s) \/ Read(s)
    \/ SetFastModeStore(s) \/ SetFastModeApply(s)

SpecMeasure == InitMeasure /\ [][NextMeasure]_vars

\* A session whose reads fail now and then.
InitLogging == InitServer("logging")

NextLogging == \E s \in Sessions : Connection(s) \/ Read(s)

SpecLogging == InitLogging /\ [][NextLogging]_vars

\* A session that runs the client's sequence of basic operations.
InitEndToEnd == InitServer("endtoend")

NextEndToEnd ==
  \E s \in Sessions :
    \/ Connection(s)
    \/ SetupVoltageSource(s) \/ Output(s) \/ Read(s)
    \/ GetStatusQuery(s) \/ GetStatusBuild(s)

SpecEndToEnd == InitEndToEnd /\ [][NextEndToEnd]_vars

\* Sessions over connections of bounded capacity.
InitAcceptor == InitServer("acceptor")

NextAcceptor ==
  \E s \in Sessions :
    \/ Connection(s)
    \/ GetStatusQuery(s) \/ GetStatusBuild(s) \/ VoltageSweep(s)

SpecAcceptor == InitAcceptor /\ [][NextAcceptor]_vars

\* Sessions that come and go while cleanup() closes the clients.
InitTeardown == InitServer("teardown")

NextTeardown ==
  \/ \E s \in Sessions :
       \/ Connection(s) \/ Finish(s) \/ Output(s)
  \/ Shutdown

SpecTeardown == InitTeardown /\ [][NextTeardown]_vars

\* A session that is sent JSON values of every shape.
InitShapes == InitServer("shapes")

NextShapes ==
  \E s \in Sessions :
    \/ Connection(s) \/ ProcessCommand(s) \/ DataError(s)

SpecShapes == InitShapes /\ [][NextShapes]_vars

\* A session whose requests are built by the client's helpers.
InitHelpers == InitServer("helpers")

NextHelpers ==
  \E s \in Sessions :
    \/ Connection(s)
    \/ Write(s) \/ Query(s) \/ Read(s)
    \/ SetupVoltageSource(s) \/ SetupCurrentSource(s) \/ Output(s)
    \/ VoltageSweep(s) \/ GetStatusQuery(s) \/ GetStatusBuild(s)
    \/ Reset(s)

SpecHelpers == InitHelpers /\ [][NextHelpers]_vars

(* --------------------------- SiPhOG server ---------------------------- *)
\* FNW_SERVER_V06_test_plot.py: the GUI thread (RealTimePlotWidget) and the
\* server thread (SiPhOGThread.run), which share the thread object's fields.
kVars == <<cfg, boot, srv, round, ci, running, clients, lsock, netVars,
           monVars, sessVars, fast_mode, counters, instVars, hist>>

\* The Keithley command server as a process that was never started.
InitOther(c) ==
  /\ InitState(c)
  /\ boot = Boot("pending", 0)
  /\ srv = "open"
  /\ running = FALSE
  /\ inst = InstDefault
  /\ lsock = "closed"
  /\ mon = "none"

\* The entries of the two current drop-downs that the runs use.
LiveCurrents == {100, 110}

\* QThread.isRunning(): run has started and has not returned.
IsRunning == tpc \notin {"none", "ended"}

\* start_server: the drop-down's value becomes the thread's current_mA,
\* the Apply button is enabled, the thread starts.
StartServer ==
  /\ tpc = "none" /\ gpc = "idle"
  /\ \E c \in LiveCurrents : current_mA' = c
  /\ apply_current_button' = TRUE
  /\ tpc' = "detect"
  /\ UNCHANGED <<kVars, cldVars, sp, server_running, new_current_mA,
                 current_change_requested, mutex, gpc, new_current, conn,
                 setpoint, signals, asked, applied>>

\* run: SiphogUnit.auto_detect() and the assert; a failure goes to the
\* outer except clause and the finally clause.
Detect ==
  /\ tpc = "detect"
  /\ \E o \in {"ok", "error"} :
       /\ sp' = IF o = "ok" THEN "dev" ELSE "none"
       /\ tpc' = IF o = "ok" THEN "setup" ELSE "ended"
  /\ server_running' = FALSE
  /\ UNCHANGED <<kVars, cldVars, current_mA, new_current_mA,
                 current_change_requested, mutex, gpc, new_current, conn,
                 setpoint, apply_current_button, signals, asked, applied>>

\* run: the device set-up, with set_sld_setpoints(current_mA=self.current_mA).
Setup ==
  /\ tpc = "setup"
  /\ \E o \in {"ok", "error"} :
       /\ setpoint' = IF o = "ok" THEN current_mA ELSE setpoint
       /\ tpc' = IF o = "ok" THEN "bind" ELSE "ended"
  /\ server_running' = FALSE
  /\ UNCHANGED <<kVars, cldVars, sp, current_mA, new_current_mA,
                 current_change_requested, mutex, gpc, new_current, conn,
                 apply_current_button, signals, asked, applied>>

\* run: socket, bind, listen, self.server_running = True.
Listen ==
  /\ tpc = "bind"
  /\ \E o \in {"ok", "error"} :
       /\ server_running' = (o = "ok")
       /\ tpc' = IF o = "ok" THEN "accept" ELSE "ended"
  /\ UNCHANGED <<kVars, cldVars, sp, current_mA, new_current_mA,
                 current_change_requested, mutex, gpc, new_current, conn,
                 setpoint, apply_current_button, signals, asked, applied>>

\* run: the outer loop.  accept() returns a connection, or times out after
\* one second and the loop test follows; with the flag off the loop ends.
AcceptClient ==
  /\ tpc = "accept"
  /\ IF ~server_running
     THEN /\ tpc' = "ended" /\ conn' = conn
     ELSE IF conn = "waiting"
     THEN /\ tpc' = "loop" /\ conn' = "open"
     ELSE /\ tpc' = "accept" /\ conn' = conn
  /\ UNCHANGED <<kVars, cldVars, sp, server_running, current_mA, new_current_mA,
                 current_change_requested, mutex, gpc, new_current,
                 setpoint, apply_current_button, signals, asked, applied>>

\* run: the test of the inner loop.
LoopTest ==
  /\ tpc = "loop"
  /\ tpc' = IF server_running THEN "lock" ELSE "close"
  /\ UNCHANGED <<kVars, cldVars, sp, server_running, current_mA, new_current_mA,
                 current_change_requested, mutex, gpc, new_current, conn,
                 setpoint, apply_current_button, signals, asked, applied>>

\* Mutant: check_and_update_current does not take the mutex.
CheckLockNoWait ==
  /\ tpc = "lock"
  /\ mutex' = "thread"
  /\ tpc' = IF current_change_requested /\ sp # "none" THEN "apply"
            ELSE "unlock"
  /\ UNCHANGED <<kVars, cldVars, sp, server_running, current_mA, new_current_mA,
                 current_change_requested, gpc, new_current, conn,
                 setpoint, apply_current_button, signals, asked, applied>>

\* check_and_update_current: self.mutex.lock() and the test of the request.
CheckLock ==
  /\ tpc = "lock" /\ mutex = "free"
  /\ mutex' = "thread"
  /\ tpc' = IF current_change_requested /\ sp # "none" THEN "apply"
            ELSE "unlock"
  /\ UNCHANGED <<kVars, cldVars, sp, server_running, current_mA, new_current_mA,
                 current_change_requested, gpc, new_current, conn,
                 setpoint, apply_current_button, signals, asked, applied>>

\* self.sp.set_sld_setpoints(current_mA=self.new_current_mA): the device
\* takes the value, or the call raises.
CheckApply ==
  /\ tpc = "apply"
  /\ \E o \in {"ok", "error"} :
       IF o = "ok"
       THEN /\ setpoint' = new_current_mA
            /\ applied' = Append(applied, new_current_mA)
            /\ tpc' = "commit"
       ELSE /\ tpc' = "fail"
            /\ UNCHANGED <<setpoint, applied>>
  /\ UNCHANGED <<kVars, cldVars, sp, server_running, current_mA, new_current_mA,
                 current_change_requested, mutex, gpc, new_current, conn,
                 apply_current_button, signals, asked>>

\* self.current_mA = self.new_current_mA, the request is cleared,
\* current_changed and status_updated are emitted.
CheckCommit ==
  /\ tpc = "commit"
  /\ current_mA' = new_current_mA
  /\ current_change_requested' = FALSE
  /\ signals' = Append(signals, [name |-> "current_changed",
                                 value |-> new_current_mA])
  /\ tpc' = "unlock"
  /\ UNCHANGED <<kVars, cldVars, sp, server_running, new_current_mA, mutex, gpc,
                 new_current, conn, setpoint, apply_current_button, asked,
                 applied>>

\* The except clause: status_updated("Failed to update current"), the
\* request is cleared.
CheckFail ==
  /\ tpc = "fail"
  /\ current_change_requested' = FALSE
  /\ signals' = Append(signals, [name |-> "failed", value |-> new_current_mA])
  /\ tpc' = "unlock"
  /\ UNCHANGED <<kVars, cldVars, sp, server_running, current_mA, new_current_mA,
                 mutex, gpc, new_current, conn, setpoint,
                 apply_current_button, asked, applied>>

\* self.mutex.unlock()
CheckUnlock ==
  /\ tpc = "unlock"
  /\ mutex' = "free"
  /\ tpc' = "read"
  /\ UNCHANGED <<kVars, cldVars, sp, server_running, current_mA, new_current_mA,
                 current_change_requested, gpc, new_current, conn,
                 setpoint, apply_current_button, signals, asked, applied>>

\* self.sp.read_valid_one_message() and the building of the output; an
\* exception ends the inner loop.
ReadMessage ==
  /\ tpc = "read"
  /\ \E o \in {"ok", "error"} : tpc' = IF o = "ok" THEN "send" ELSE "close"
  /\ UNCHANGED <<kVars, cldVars, sp, server_running, current_mA, new_current_mA,
                 current_change_requested, mutex, gpc, new_current, conn,
                 setpoint, apply_current_button, signals, asked, applied>>

\* conn.send(...): socket.error ends the inner loop.
SendData ==
  /\ tpc = "send"
  /\ tpc' = IF conn = "open" THEN "loop" ELSE "close"
  /\ UNCHANGED <<kVars, cldVars, sp, server_running, current_mA, new_current_mA,
                 current_change_requested, mutex, gpc, new_current, conn,
                 setpoint, apply_current_button, signals, asked, applied>>

\* conn.close(), back to accept().
CloseConn ==
  /\ tpc = "close"
  /\ conn' = "none"
  /\ tpc' = "accept"
  /\ UNCHANGED <<kVars, cldVars, sp, server_running, current_mA, new_current_mA,
                 current_change_requested, mutex, gpc, new_current,
                 setpoint, apply_current_button, signals, asked, applied>>

ThreadStep ==
  \/ Detect \/ Setup \/ Listen \/ AcceptClient \/ LoopTest
  \/ CheckLock \/ CheckApply \/ CheckCommit \/ CheckFail \/ CheckUnlock
  \/ ReadMessage \/ SendData \/ CloseConn

\* A client connects to the listening socket, or goes away.
ClientComes ==
  /\ server_running /\ conn = "none"
  /\ conn' = "waiting"
  /\ UNCHANGED <<kVars, cldVars, sp, server_running, current_mA, new_current_mA,
                 current_change_requested, mutex, tpc, gpc, new_current,
                 setpoint, apply_current_button, signals, asked, applied>>

ClientGoes ==
  /\ conn = "open"
  /\ conn' = "gone"
  /\ UNCHANGED <<kVars, cldVars, sp, server_running, current_mA, new_current_mA,
                 current_change_requested, mutex, tpc, gpc, new_current,
                 setpoint, apply_current_button, signals, asked, applied>>

\* apply_current_change: the button is pressed while the thread runs; the
\* value of the live drop-down is the request.
ApplyCurrentChange ==
  /\ gpc = "idle" /\ apply_current_button /\ IsRunning
  /\ Len(asked) < MaxRequests
  /\ \E v \in LiveCurrents :
       /\ new_current' = v
       /\ asked' = Append(asked, [value |-> v, waited |-> mutex = "thread",
                                  connected |-> conn = "open"])
  /\ gpc' = "lock"
  /\ UNCHANGED <<kVars, cldVars, sp, server_running, current_mA, new_current_mA,
                 current_change_requested, mutex, tpc, conn, setpoint,
                 apply_current_button, signals, applied>>

\* set_current: self.mutex.lock()
SetLock ==
  /\ gpc = "lock" /\ mutex = "free"
  /\ mutex' = "gui"
  /\ gpc' = "value"
  /\ UNCHANGED <<kVars, cldVars, sp, server_running, current_mA, new_current_mA,
                 current_change_requested, tpc, new_current, conn,
                 setpoint, apply_current_button, signals, asked, applied>>

\* self.new_current_mA = new_current_mA
SetValue ==
  /\ gpc = "value"
  /\ new_current_mA' = new_current
  /\ gpc' = "flag"
  /\ UNCHANGED <<kVars, cldVars, sp, server_running, current_mA,
                 current_change_requested, mutex, tpc, new_current, conn,
                 setpoint, apply_current_button, signals, asked, applied>>

\* self.current_change_requested = True
SetFlag ==
  /\ gpc = "flag"
  /\ current_change_requested' = TRUE
  /\ gpc' = "unlock"
  /\ UNCHANGED <<kVars, cldVars, sp, server_running, current_mA, new_current_mA,
                 mutex, tpc, new_current, conn, setpoint,
                 apply_current_button, signals, asked, applied>>

\* self.mutex.unlock()
SetUnlock ==
  /\ gpc = "unlock"
  /\ mutex' = "free"
  /\ gpc' = "disable"
  /\ UNCHANGED <<kVars, cldVars, sp, server_running, current_mA, new_current_mA,
                 current_change_requested, tpc, new_current, conn,
                 setpoint, apply_current_button, signals, asked, applied>>

\* apply_current_change: the button is disabled until the change is applied.
DisableButton ==
  /\ gpc = "disable"
  /\ apply_current_button' = FALSE
  /\ gpc' = "idle"
  /\ UNCHANGED <<kVars, cldVars, sp, server_running, current_mA, new_current_mA,
                 current_change_requested, mutex, tpc, new_current, conn,
                 setpoint, signals, asked, applied>>

\* The GUI's event loop runs the slot of the oldest signal: on_current_changed
\* enables the button again; a status text only changes the label.
Deliver ==
  /\ gpc = "idle" /\ signals # <<>>
  /\ apply_current_button' =
       IF Head(signals).name = "current_changed" THEN TRUE
       ELSE apply_current_button
  /\ signals' = Tail(signals)
  /\ UNCHANGED <<kVars, cldVars, sp, server_running, current_mA, new_current_mA,
                 current_change_requested, mutex, tpc, gpc, new_current,
                 conn, setpoint, asked, applied>>

\* stop_server: stop() clears the flag; the GUI then waits for the thread
\* and disables the button.
StopThread ==
  /\ gpc = "idle" /\ IsRunning
  /\ server_running' = FALSE
  /\ gpc' = "wait"
  /\ UNCHANGED <<kVars, cldVars, sp, current_mA, new_current_mA,
                 current_change_requested, mutex, tpc, new_current, conn,
                 setpoint, apply_current_button, signals, asked, applied>>

StopWait ==
  /\ gpc = "wait" /\ tpc = "ended"
  /\ apply_current_button' = FALSE
  /\ gpc' = "idle"
  /\ UNCHANGED <<kVars, cldVars, sp, server_running, current_mA, new_current_mA,
                 current_change_requested, mutex, tpc, new_current, conn,
                 setpoint, signals, asked, applied>>

SetCurrent == SetLock \/ SetValue \/ SetFlag \/ SetUnlock

GuiStep ==
  \/ StartServer \/ ApplyCurrentChange \/ SetCurrent \/ DisableButton
  \/ Deliver \/ StopThread \/ StopWait

InitSiphog == InitOther("siphog")

NextSiphog == ThreadStep \/ GuiStep \/ ClientComes \/ ClientGoes

SpecSiphog == InitSiphog /\ [][NextSiphog]_vars

\* The server thread and the GUI's event loop keep running; whether a
\* client connects, and what the user does, is up to them.
SpecSiphogLive ==
  /\ InitSiphog /\ [][NextSiphog]_vars
  /\ WF_vars(ThreadStep)
  /\ WF_vars(SetCurrent \/ DisableButton \/ Deliver \/ StopWait)

(* --------------------------- CLD101x server --------------------------- *)
\* cld101x_server.py: main accepts a connection and calls handle_client,
\* which returns when the session is over.  What a client sends is given
\* as the result of data.split(): a whitespace-only message splits into
\* nothing.
Messages ==
  {<<"SET_LASER_CURRENT", "1">>, <<"SET_LASER_CURRENT">>, <<"LASER_ON">>,
   <<"READ_LASER_CURRENT">>, <<"READ_TEC_TEMPERATURE">>, <<"BOGUS">>, <<>>}

\* The instrument calls of a command, READ_TEC_TEMPERATURE apart; none for
\* what no branch matches.
CldCalls(p) ==
  CASE p[1] = "SET_LASER_CURRENT" /\ Len(p) > 1 ->
         <<"source1:current:level:amplitude",
           "source1:current:level:amplitude?">>
    [] p[1] = "LASER_ON" -> <<"output1:state on", "output1:state?">>
    [] p[1] = "READ_LASER_CURRENT" -> <<"sense3:current:dc:data?">>
    [] OTHER -> <<>>

\* The instrument is called for the client being served.
CalledFor(c) ==
  IF callers # <<>> /\ callers[Len(callers)] = c THEN callers
  ELSE Append(callers, c)

\* A client connects; the connection waits in the listening socket's queue.
CldConnect(c) ==
  /\ link[c] = "away"
  /\ link' = [link EXCEPT ![c] = "waiting"]
  /\ backlog' = Append(backlog, c)
  /\ UNCHANGED <<kVars, sipVars, instr_timeout, original_timeout, mpc,
                 serving, inbox, parts, response, told, taken, answered,
                 callers, before>>

\* A client sends a message once its earlier ones were answered.
CldTell(c) ==
  /\ link[c] \in {"waiting", "open"}
  /\ told[c] < SeqReq /\ answered[c] = told[c]
  /\ \E m \in Messages : inbox' = [inbox EXCEPT ![c] = Append(@, m)]
  /\ told' = [told EXCEPT ![c] = @ + 1]
  /\ UNCHANGED <<kVars, sipVars, instr_timeout, original_timeout, mpc,
                 serving, backlog, link, parts, response, taken, answered,
                 callers, before>>

\* A client closes its connection.
CldLeave(c) ==
  /\ link[c] \in {"waiting", "open"}
  /\ link' = [link EXCEPT ![c] = "left"]
  /\ UNCHANGED <<kVars, sipVars, instr_timeout, original_timeout, mpc,
                 serving, backlog, inbox, parts, response, told, taken,
                 answered, callers, before>>

\* main: conn, addr = s.accept(); handle_client(conn, addr, instr)
CldAccept ==
  /\ mpc = "accept" /\ backlog # <<>>
  /\ serving' = Head(backlog)
  /\ backlog' = Tail(backlog)
  /\ link' = [link EXCEPT ![Head(backlog)] =
                IF @ = "waiting" THEN "open" ELSE @]
  /\ mpc' = "recv"
  /\ UNCHANGED <<kVars, sipVars, instr_timeout, original_timeout, inbox,
                 parts, response, told, taken, answered, callers, before>>

\* data = conn.recv(1024).decode(); parts = data.split();
\* command = parts[0].  No data ends the session; so does the IndexError
\* of a message without a word, through the outer except clause.
CldRecv ==
  /\ mpc = "recv"
  /\ LET c == serving IN
     \/ /\ inbox[c] # <<>>
        /\ parts' = Head(inbox[c])
        /\ inbox' = [inbox EXCEPT ![c] = Tail(@)]
        /\ taken' = [taken EXCEPT ![c] = @ + 1]
        /\ before' = instr_timeout
        /\ mpc' = IF Head(inbox[c]) = <<>> THEN "close" ELSE "exec"
     \/ /\ inbox[c] = <<>> /\ link[c] = "left"
        /\ mpc' = "close"
        /\ UNCHANGED <<parts, inbox, taken, before>>
  /\ UNCHANGED <<kVars, sipVars, instr_timeout, original_timeout, serving,
                 backlog, link, response, told, answered, callers>>

\* The branches other than READ_TEC_TEMPERATURE: the next write or query
\* of the command; a VisaIOError of any of them is answered by the except
\* clause of line 64.  A command no branch matches is answered at once.
CldCall ==
  /\ mpc = "exec"
  /\ IF parts = <<>> THEN TRUE ELSE parts[1] # "READ_TEC_TEMPERATURE"
  /\ LET calls == IF parts = <<>> THEN <<>> ELSE CldCalls(parts)
         k == Len(response) + 1
     IN IF calls = <<>>
        THEN /\ response' = "Unknown command or missing value"
             /\ mpc' = "send"
             /\ callers' = callers
        ELSE /\ callers' = CalledFor(serving)
             /\ \E o \in {"ok", "timeout", "error"} :
                  IF o # "ok"
                  THEN /\ response' = "ERROR: VISA communication error"
                       /\ mpc' = "send"
                  ELSE IF k = Len(calls)
                  THEN /\ response' = "reply to " \o parts[1]
                       /\ mpc' = "send"
                  ELSE /\ response' = response \o "."
                       /\ mpc' = "exec"
  /\ UNCHANGED <<kVars, sipVars, instr_timeout, original_timeout, serving,
                 backlog, link, inbox, parts, told, taken, answered, before>>

\* READ_TEC_TEMPERATURE: original_timeout = instr.timeout
TecSave ==
  /\ mpc = "exec" /\ parts # <<>> /\ parts[1] = "READ_TEC_TEMPERATURE"
  /\ original_timeout' = instr_timeout
  /\ mpc' = "tec_lower"
  /\ UNCHANGED <<kVars, sipVars, instr_timeout, serving, backlog, link,
                 inbox, parts, response, told, taken, answered, callers,
                 before>>

\* instr.timeout = 200
TecLower ==
  /\ mpc = "tec_lower"
  /\ instr_timeout' = TecTimeout
  /\ mpc' = "tec_query"
  /\ UNCHANGED <<kVars, sipVars, original_timeout, serving, backlog, link,
                 inbox, parts, response, told, taken, answered, callers,
                 before>>

\* Mutant: the timeout is restored only after a query that returned.
TecQueryNoFinally ==
  /\ mpc = "tec_query"
  /\ callers' = CalledFor(serving)
  /\ \E o \in {"ok", "timeout", "error"} :
       /\ response' = CASE o = "ok" -> "Current TEC temperature"
                        [] o = "timeout" -> "ERROR: Temperature reading timeout"
                        [] OTHER -> "ERROR: VISA error"
       /\ mpc' = IF o = "ok" THEN "tec_restore" ELSE "send"
  /\ UNCHANGED <<kVars, sipVars, instr_timeout, original_timeout, serving,
                 backlog, link, inbox, parts, told, taken, answered, before>>

\* temp = instr.query("SENSe2:temperature:data?"): the reply, or a
\* VisaIOError that the inner except clause turns into a response; the
\* finally clause follows in every case.
TecQuery ==
  /\ mpc = "tec_query"
  /\ callers' = CalledFor(serving)
  /\ \E o \in {"ok", "timeout", "error"} :
       response' = CASE o = "ok" -> "Current TEC temperature"
                     [] o = "timeout" -> "ERROR: Temperature reading timeout"
                     [] OTHER -> "ERROR: VISA error"
  /\ mpc' = "tec_restore"
  /\ UNCHANGED <<kVars, sipVars, instr_timeout, original_timeout, serving,
                 backlog, link, inbox, parts, told, taken, answered, before>>

\* finally: instr.timeout = original_timeout
TecRestore ==
  /\ mpc = "tec_restore"
  /\ instr_timeout' = original_timeout
  /\ original_timeout' = 0
  /\ mpc' = "send"
  /\ UNCHANGED <<kVars, sipVars, serving, backlog, link, inbox, parts,
                 response, told, taken, answered, callers, before>>

\* conn.sendall(response.encode()); on a connection the client has closed
\* it raises, which ends the session.
CldSend ==
  /\ mpc = "send"
  /\ IF link[serving] = "open"
     THEN /\ answered' = [answered EXCEPT ![serving] = @ + 1]
          /\ mpc' = "recv"
     ELSE /\ answered' = answered
          /\ mpc' = "close"
  /\ response' = ""
  /\ UNCHANGED <<kVars, sipVars, instr_timeout, original_timeout, serving,
                 backlog, link, inbox, parts, told, taken, callers, before>>

\* conn.close(); handle_client returns and main accepts again.
CldClose ==
  /\ mpc = "close"
  /\ link' = [link EXCEPT ![serving] = "left"]
  /\ serving' = 0
  /\ parts' = <<>>
  /\ mpc' = "accept"
  /\ UNCHANGED <<kVars, sipVars, instr_timeout, original_timeout, backlog,
                 inbox, response, told, taken, answered, callers, before>>

HandleClient ==
  \/ CldRecv \/ CldCall \/ TecSave \/ TecLower \/ TecQuery \/ TecRestore
  \/ CldSend \/ CldClose

InitCld == InitOther("cld")

NextCld ==
  \/ CldAccept \/ HandleClient
  \/ \E c \in Sessions : CldConnect(c) \/ CldTell(c) \/ CldLeave(c)

SpecCld == InitCld /\ [][NextCld]_vars

(* ------------------------------- claims ------------------------------- *)
Called(s) == Len(trace[s]) > 0
IssuesCall(s) == Len(trace'[s]) > Len(trace[s])

\* C1: at most one command uses the instrument at a time: a call that is not
\* the first call of its command directly follows the previous call of the
\* same command, no call of another thread lies between them.
C1_Serialized ==
  [][\A s \in Sessions : (Called(s) /\ IssuesCall(s)) => lastCaller = s]_vars

\* C2: a voltage_sweep is atomic: from its first call until its response is
\* ready no other session issues an instrument call.
C2_SweepAtomic ==
  [][\A s, t \in Sessions :
       (s # t /\ pc[s] = "exec" /\ cmd[s].type = "voltage_sweep" /\ Called(s))
         => ~IssuesCall(t)]_vars

\* C7: counter integrity: read_count is the number of read attempts and
\* error_count the number of failed ones (no statistics tick in between).
C7_CounterIntegrity == read_count = nreads /\ error_count = nfails

Names(tr) == [i \in 1..Len(tr) |-> tr[i].c]
IsPrefix(a, b) == Len(a) <= Len(b) /\ \A i \in 1..Len(a) : a[i] = b[i]
Sweeping(s) == cmd[s].type = "voltage_sweep"
SweepFailed(s) == pc[s] = "send" /\ Sweeping(s) /\ resp[s].status = "error"
SweepDone(s) == pc[s] = "send" /\ Sweeping(s) /\ resp[s].status = "success"
OutputOnAt(tr, i) == tr[i] = [c |-> ":OUTP ON", o |-> "ok"]
OutputOffAt(tr, i) == tr[i] = [c |-> ":OUTP OFF", o |-> "ok"]

\* C4: a sweep that fails after it switched the output on has switched it
\* off again when its Failure response is ready to be sent.
C4_OutputOffOnFailure ==
  \A s \in Sessions :
    SweepFailed(s) =>
      \A i \in 1..Len(trace[s]) :
        OutputOnAt(trace[s], i) =>
          \E j \in (i+1)..Len(trace[s]) : OutputOffAt(trace[s], j)

\* C5: a sweep request with steps < 2 issues no instrument call and is
\* answered with a Failure.
C5_StepsValidated ==
  \A s \in Sessions :
    (Sweeping(s) /\ cmd[s].steps < 2) =>
      /\ trace[s] = <<>>
      /\ pc[s] = "send" => resp[s].status = "error"

\* The order of a sweep's calls as the claim gives it, for n steps.
SweepOrder(n) ==
  <<":SOUR:FUNC VOLT", ":SOUR:VOLT:MODE FIXED", ":SENS:FUNC CURR",
    ":SENS:CURR:PROT", ":OUTP ON">> \o
  [i \in 1..(2 * n) |-> IF i % 2 = 1 THEN ":SOUR:VOLT" ELSE ":READ?"] \o
  <<":OUTP OFF">>

\* C9: the calls of a sweep are a prefix of: the configuration writes,
\* ':OUTP ON', per step the level write and one measurement, ':OUTP OFF'; a
\* measurement only follows a successful ':OUTP ON'; a successful sweep has
\* issued the whole sequence, ':OUTP OFF' last, when its response is ready.
C9_SweepOrder ==
  \A s \in Sessions :
    Sweeping(s) =>
      LET n == IF cmd[s].steps > 0 THEN cmd[s].steps ELSE 0
          tr == trace[s]
      IN /\ IsPrefix(Names(tr), SweepOrder(n))
         /\ \A i \in 1..Len(tr) :
              tr[i].c = ":READ?" => \E j \in 1..(i-1) : OutputOnAt(tr, j)
         /\ SweepDone(s) =>
              /\ Names(tr) = SweepOrder(n)
              /\ OutputOffAt(tr, Len(tr))
              /\ Len(resp[s].data) = n

C9_Witness ==
  \E s \in Sessions :
    /\ SweepDone(s) /\ cmd[s].steps >= 2
    /\ Len(trace[s]) = 6 + 2 * cmd[s].steps

\* The sweep of s failed in its loop: its last call is a level write or a
\* measurement, and its response is a Failure.
StepFailed(s) ==
  /\ SweepFailed(s) /\ Called(s)
  /\ trace[s][Len(trace[s])].c \in {":SOUR:VOLT", ":READ?"}
\* The number of steps completed before the failing one.
StepsBefore(s) == (Len(trace[s]) - 6) \div 2

\* C10 (as claimed): the Failure response of a sweep whose step k failed
\* carries the results of the k steps completed before it, in step order.
C10_PartialResults ==
  \A s \in Sessions :
    StepFailed(s) =>
      /\ "data" \in resp[s].has
      /\ resp[s].data = [i \in 1..StepsBefore(s) |-> SweepEntry(cmd[s], i - 1)]

\* C10 (amended): the Failure response of a sweep whose step k failed has
\* the fault message as its only member; it has no data member, and the
\* results of the steps completed before are dropped with the handler's
\* list.
C10_FailureCarriesNoResults ==
  \A s \in Sessions :
    StepFailed(s) =>
      /\ resp[s].has = {"message"}
      /\ resp[s].data = <<>>
      /\ results[s] = <<>>

C10_Witness ==
  \E s \in Sessions : StepFailed(s) /\ StepsBefore(s) >= 1

\* C6: once the shutdown has completed (both cleanup calls returned, the
\* instrument closed by a cleanup whose writes all succeeded) the output is
\* off: no call of a session took effect after the cleanup's ':OUTP OFF'.
C6_OutputOffAfterShutdown ==
  (srv = "exited" /\ inst.closed) => inst.output = "OFF"

\* C3: a session never sends more responses than its client has sent
\* requests, and what send_command returns for the k-th request is the
\* server's response to the k-th request.
C3_OneResponsePerRequest ==
  \A s \in Sessions :
    /\ nsent[s] <= creq[s]
    /\ cgot[s].for > 0 => cgot[s].ans = cgot[s].for

\* The client holds the server's response to its latest request.
Served(s) ==
  cpc[s] = "ready" /\ cgot[s].for = creq[s] /\ cgot[s].ans = creq[s]

IsQuotient(v, a, b) == v.d # 0 /\ v.n * b = a * v.d
\* v is  start + i * (stop - start) / (steps - 1)  of the sweep request c.
IsLevel(v, c, i) ==
  IsQuotient(v, c.start * (c.steps - 1) + i * (c.stop - c.start), c.steps - 1)
Below(v, w) == v.n * w.d < w.n * v.d

TakesGarbage(s) ==
  /\ pc[s] = "recv" /\ pc'[s] # "recv"
  /\ sock[s] = "open" /\ wire[s] # <<>>
  /\ "bad" \in DOMAIN wire[s][1].body

\* C12: bytes that are not UTF-8 or not JSON are answered with a Failure on
\* the session that received them, and that session's handler goes on: it
\* ends only when its peer has left or the server stops.
C12_MalformedAnswered ==
  /\ [][\A s \in Sessions :
          TakesGarbage(s) =>
            /\ pc'[s] = "send" /\ resp'[s].status = "error"
            /\ \A t \in Sessions \ {s} : back'[t] = back[t]]_vars
  /\ [](\A s \in Sessions :
          pc[s] \in {"fin", "done"} => (peer[s] = "closed" \/ ~running))

\* The handler of s is processing, or has just answered, a request whose
\* type is none of the ten that process_command knows.
UnknownTag(s) == cmd[s].type \notin KnownTypes \cup {"none"}

\* C13: a request with an unknown type is answered with a Failure whose
\* message ends with that type; the step that rejects it calls nothing on the
\* instrument and leaves the flag, the counters, the instrument and the
\* client list as they are; after the response the handler waits for the
\* next request on the same connection.
C13_UnknownRejected ==
  /\ [][\A s \in Sessions :
          /\ (UnknownTag(s) /\ pc[s] = "exec" /\ pc'[s] # "exec") =>
               /\ pc'[s] = "send"
               /\ resp'[s].status = "error"
               /\ resp'[s].msg = "Unknown command type: " \o cmd[s].type
               /\ UNCHANGED <<inst, lastCaller, fast_mode, read_count,
                              error_count, running, clients, sock>>
          /\ (UnknownTag(s) /\ pc[s] = "send" /\ pc'[s] # "send"
                /\ sock[s] = "open" /\ peer[s] = "open" /\ running) =>
               (pc'[s] = "recv" /\ sock'[s] = "open")]_vars
  /\ [](\A s \in Sessions : UnknownTag(s) => trace[s] = <<>>)

C13_Witness ==
  \E s \in Sessions :
    /\ cmd[s].type = "bogus" /\ pc[s] = "recv" /\ sock[s] = "open"
    /\ cgot[s].body.status = "error"
    /\ cgot[s].body.msg = "Unknown command type: bogus"
    /\ inst.output = "ON"

\* The i-th instrument call of the command of s raised.
Raised(s, i) == trace[s][i].o # "ok"

\* C14: a call that raises is the last call of its command; the command
\* ends with the Failure that carries the fault's text ('read' counts the
\* error first); no handler ends, the server keeps accepting and the
\* instrument stays open.
C14_FaultRecovered ==
  /\ \A s \in Sessions : \A i \in 1..Len(trace[s]) :
       Raised(s, i) =>
         /\ i = Len(trace[s])
         /\ pc[s] \in {"exec", "send"}
         /\ pc[s] = "exec" => (cmd[s].type = "read" /\ idx[s] \in {3, 4, 5})
         /\ resp[s].status = "error" /\ resp[s].msg = trace[s][i].o
  /\ \A s \in Sessions : pc[s] \notin {"fin", "done"}
  /\ srv = "accept" /\ running /\ ~inst.closed

C14_Witness ==
  \E s, t \in Sessions :
    /\ s # t
    /\ cmd[s].type = "reset" /\ pc[s] = "recv"
    /\ cgot[s].body.status = "error" /\ cgot[s].body.msg = "timeout"
    /\ inst.azer /\ ~inst.conc
    /\ cmd[t].type = "read" /\ cgot[t].body.status = "success"

\* The handler of s is running: it has executed its first statement, the
\* append to self.clients, and not yet its finally clause.
HandlerRunning(s) == pc[s] \in {"recv", "exec", "send", "fin"}
Occurrences(q, x) == Cardinality({i \in 1..Len(q) : q[i] = x})

Reported(d) ==
  [output |-> d.output, source_function |-> d.source_function,
   fast_mode |-> d.fast_mode, read_count |-> d.read_count,
   error_count |-> d.error_count]

\* C16: the status record a get_status returns is what instrument, flag and
\* counters were at one moment between the start of the command and its
\* return.
C16_StatusSnapshot ==
  \A s \in Sessions :
    (pc[s] = "send" /\ cmd[s].type = "get_status"
       /\ resp[s].status = "success") =>
      Reported(resp[s].data) \in seen[s]

\* No connection has been accepted yet.
BeforeFirstAccept == \A s \in Sessions : pc[s] = "idle"

\* C17: a server started with the fast-mode flag set has, before it accepts
\* its first connection, an instrument that was reset and is in the fast
\* configuration: auto-zero off, display off, concurrent sensing on.
C17_FastConfigAtStart ==
  (BeforeFirstAccept /\ srv = "accept" /\ fast_mode) =>
    /\ inst.output = "OFF" /\ inst.func = "VOLT"
    /\ ~inst.azer /\ ~inst.disp /\ inst.conc

\* The command of s has returned success and its response is to be sent.
Succeeded(s, type) ==
  pc[s] = "send" /\ cmd[s].type = type /\ resp[s].status = "success"
\* The instrument is in the fast configuration / in the standard one.
FastConfigured ==
  ~inst.azer /\ ~inst.disp /\ inst.conc /\ inst.elem = "VC"
StandardConfigured ==
  inst.azer /\ inst.disp /\ ~inst.conc /\ inst.elem = "ALL"

\* C18: a reset that succeeds with the flag set has issued the reset, the
\* status clear and the four fast-mode writes, and leaves the instrument in
\* the fast configuration; with the flag not set it has issued the reset
\* and the status clear only.
C18_ResetReapplies ==
  \A s \in Sessions :
    Succeeded(s, "reset") =>
      IF fast_mode
      THEN /\ Names(trace[s]) =
                <<"*RST", "*CLS", ":SYST:AZER OFF", ":DISP:ENAB OFF",
                  ":SENS:FUNC:CONC ON", ":FORM:ELEM VOLT,CURR">>
           /\ FastConfigured
      ELSE /\ Names(trace[s]) = <<"*RST", "*CLS">>
           /\ StandardConfigured

C18_Witness ==
  \E s \in Sessions :
    /\ Succeeded(s, "reset") /\ fast_mode /\ FastConfigured
    /\ rid[s] = 2 /\ Len(trace[s]) = 6

\* C19: a set_fast_mode that succeeds has stored the requested value in the
\* flag, and after a successful set_fast_mode or reset auto-zero, display,
\* concurrent sensing and element selection are those of the flag's mode.
C19_ConfigAgreesWithFlag ==
  \A s \in Sessions :
    /\ Succeeded(s, "set_fast_mode") => fast_mode = cmd[s].enabled
    /\ (Succeeded(s, "set_fast_mode") \/ Succeeded(s, "reset")) =>
         IF fast_mode THEN FastConfigured ELSE StandardConfigured

\* C20: when the shutdown has completed, every socket on the client list is
\* closed, the instrument connection is closed, and with the fast-mode flag
\* set auto-zero and display are on again, whatever failed on the way.
C20_CleanupGuaranteed ==
  srv = "exited" =>
    /\ \A k \in 1..Len(clients) : sock[clients[k]] = "closed"
    /\ inst.closed
    /\ fast_mode => (inst.azer /\ inst.disp)

\* A call of the start-up raised.
BootFailed == boot.state \in {"instrument", "port"}
NoSession ==
  /\ clients = <<>>
  /\ \A s \in Sessions : pc[s] = "idle" /\ sock[s] = "closed"

\* C21: a start-up whose instrument cannot be opened or configured ends the
\* process in the constructor: the port is never bound and start_server never
\* runs; a start-up whose port cannot be bound never enters the accept loop;
\* in both cases, and as long as the start-up has not completed, no
\* connection is accepted and no handler is started.
C21_StartupFatal ==
  /\ (BootFailed \/ boot.state = "pending") =>
        (NoSession /\ srv # "accept" /\ ~running /\ lsock = "closed")
  /\ boot.state = "instrument" =>
        (srv = "exited" /\ mon = "none" /\ round = 1)

C21_Witness ==
  /\ boot.state = "port"
  /\ srv = "exited" /\ inst.closed /\ NoSession

\* The reporter's sleep returns; the last step of a tick that reported.
Tick == mon = "sleep" /\ now' # now
TickDone == mon = "renew" /\ mon' # "renew"

\* C22: a tick that finds the read counter nonzero logs one record, and
\* when it ends both counters are 0 and the time base is the present time; a
\* tick that finds it zero logs nothing and leaves counters and time base
\* as they are.
C22_TickResets ==
  [][/\ (Tick /\ read_count > 0) =>
          (Len(snap') = Len(snap) + 1 /\ mon' = "reset_reads")
     /\ (Tick /\ read_count = 0) =>
          /\ UNCHANGED <<snap, read_count, error_count, last_stats_time>>
          /\ mon' \in {"sleep", "done"}
     /\ TickDone =>
          (read_count' = 0 /\ error_count' = 0 /\ last_stats_time' = now')
    ]_vars

\* A step of the statistics reporter.
MonitorStep == mon # "none" /\ (mon' # mon \/ now' # now)

\* C30: a step of the statistics reporter calls nothing on the instrument
\* and changes only the read counter, the error counter, the time base and
\* the reporter's own position and log: instrument, fast-mode flag, client
\* list, running flag, sockets and handlers stay as they are.
C30_MonitorFrame ==
  [][MonitorStep =>
       UNCHANGED <<inst, lastCaller, lastArg, trace, fast_mode, clients,
                   running, srv, lsock, netVars, sessVars, hist>>]_vars

C30_Witness ==
  /\ mon = "sleep" /\ Len(snap) = 1 /\ last_stats_time = now
  /\ read_count = 0 /\ error_count = 0
  /\ inst = ConnectInstrument(TRUE) /\ lastCaller = 1
  /\ \E s \in Sessions : pc[s] = "recv" /\ cgot[s].body.status = "success"

\* The read of s has returned; its response is to be sent.
ReadDone(s) == pc[s] = "send" /\ cmd[s].type = "read"
MeasurementKeys ==
  {"voltage", "current", "resistance", "power", "timestamp", "read_time_ms"}

\* C23: with the fast-mode flag set, the data of a successful read response
\* has exactly the members voltage, current, resistance, power, timestamp
\* and read_time_ms; voltage and current are the first two fields of the
\* reply, resistance and power are computed from them (power their
\* product); a read whose reply has fewer than two fields is answered with
\* a Failure.
C23_FastShape ==
  \A s \in Sessions :
    ReadDone(s) =>
      /\ (fast_mode /\ resp[s].status = "success") =>
           LET d == resp[s].data
               v == stat[s][1]
               c == stat[s][2]
           IN /\ DOMAIN d = MeasurementKeys
              /\ d.voltage = v /\ d.current = c
              /\ d.power = [n |-> v * c, d |-> 1]
              /\ d.resistance \in {[n |-> v, d |-> c], [n |-> 1, d |-> 1000]}
      /\ Len(stat[s]) < 2 =>
           (resp[s].status = "error" /\ resp[s].has = {"message"})

C23_Witness ==
  \E s \in Sessions :
    /\ ReadDone(s) /\ fast_mode /\ resp[s].status = "success"
    /\ Len(stat[s]) = 4 /\ stat[s][1] = 2 /\ stat[s][2] = -2
    /\ resp[s].data.power = [n |-> -4, d |-> 1]
    /\ rid[s] = 2

\* C24: in a fast-mode read the resistance is voltage / current when
\* |current| > 1e-12 and 1e9 otherwise; a reply of two or more fields is
\* answered with success whatever its current, zero included.
C24_OpenCircuit ==
  \A s \in Sessions :
    (ReadDone(s) /\ fast_mode /\ Len(stat[s]) >= 2) =>
      LET v == stat[s][1]
          c == stat[s][2]
          r == resp[s].data.resistance
      IN /\ resp[s].status = "success"
         /\ IF c > 1 \/ c < -1
            THEN r.d # 0 /\ r.n * c = v * r.d
            ELSE r.d # 0 /\ r.n * 1000 = r.d

C24_Witness ==
  \E s \in Sessions :
    /\ ReadDone(s) /\ fast_mode /\ resp[s].status = "success"
    /\ stat[s][1] = 2 /\ stat[s][2] = 0
    /\ resp[s].data.resistance = [n |-> 1, d |-> 1000]

\* C28: with the fast-mode flag not set, a successful read response takes
\* resistance from the third field of the reply and power from the fourth;
\* a field the reply does not have is None, nothing is computed from
\* voltage and current.
C28_StandardShape ==
  \A s \in Sessions :
    (ReadDone(s) /\ ~fast_mode /\ resp[s].status = "success") =>
      LET d == resp[s].data
          n == Len(stat[s])
      IN /\ n >= 2
         /\ d.voltage = stat[s][1] /\ d.current = stat[s][2]
         /\ d.resistance =
              IF n >= 3 THEN [n |-> stat[s][3], d |-> 1] ELSE [n |-> 0, d |-> 0]
         /\ d.power =
              IF n >= 4 THEN [n |-> stat[s][4], d |-> 1] ELSE [n |-> 0, d |-> 0]

C28_Witness ==
  \E s \in Sessions :
    /\ ReadDone(s) /\ ~fast_mode /\ resp[s].status = "success"
    /\ Len(stat[s]) = 3 /\ stat[s][2] = 2
    /\ resp[s].data.resistance = [n |-> 7, d |-> 1]
    /\ resp[s].data.power = [n |-> 0, d |-> 0]

\* The failed read of s ends: the step after its increment of the error
\* counter, which logs or not and returns the Failure.
FailedReadEnds(s) ==
  pc[s] = "exec" /\ cmd[s].type = "read" /\ idx[s] = 5 /\ pc'[s] # "exec"
Logged == Len(log') = Len(log) + 1
Last(q) == q[Len(q)]

\* C29: a read that failed with a timeout logs one warning if the error
\* counter, incremented by this read, is 1 modulo 20, and nothing otherwise;
\* a read that failed with another fault logs one error record every time;
\* either way the Failure goes to the session, whose handler goes on to its
\* next request, and the server keeps running.
C29_TimeoutLogStride ==
  /\ [][\A s \in Sessions :
          FailedReadEnds(s) =>
            /\ error_count = nfails
            /\ IF resp[s].msg = "timeout"
               THEN IF error_count % 20 = 1
                    THEN /\ Logged
                         /\ Last(log').level = "warning"
                         /\ Last(log').count = error_count
                    ELSE log' = log
               ELSE Logged /\ Last(log').level = "error"
            /\ pc'[s] = "send" /\ resp'[s] = resp[s]
            /\ resp[s].status = "error"]_vars
  /\ [](/\ \A s \in Sessions : pc[s] \notin {"fin", "done"}
        /\ srv = "accept" /\ running /\ ~inst.closed)

C29_Witness ==
  \E s \in Sessions :
    /\ pc[s] = "recv" /\ rid[s] = 2 /\ error_count = 21
    /\ cgot[s].body.status = "error" /\ cgot[s].body.msg = "timeout"
    /\ log = <<[level |-> "warning", msg |-> "timeout", count |-> 21]>>

\* The client of s has got the success response to its k-th request and
\* nothing since.
Answered(s, k) == cgot[s].for = k /\ cgot[s].body.status = "success"

AwaitsMessage(s) ==
  pc[s] = "recv" /\ sock[s] = "open" /\ peer[s] = "open" /\ wire[s] = <<>>
Stalled(s) ==
  /\ pc[s] = "send" /\ sock[s] = "open" /\ peer[s] = "open"
  /\ ~Room(s, RespFrags(resp[s]))
CanStep(s) ==
  /\ pc[s] \in {"start", "recv", "exec", "send", "fin"}
  /\ ~AwaitsMessage(s) /\ ~Stalled(s)
\* The next connection is the one of session s.
NextToConnect(s) ==
  s \in Scn.sessions /\ pc[s] = "idle" /\ \A t \in Sessions : t < s => pc[t] # "idle"
HandlerStep(s) ==
  Register(s) \/ Recv(s) \/ ProcessCommand(s) \/ Send(s) \/ Finish(s)

\* C26: while the server runs, the next connection can be accepted
\* whatever the handlers of the other sessions are doing; accepting it
\* starts a handler of its own and changes no other session; and a handler
\* that is not itself waiting for a message or for room on its connection
\* can take its next step whatever the other sessions are doing.
C26_AcceptorNeverBlocked ==
  /\ [](\A s \in Sessions :
          (srv = "accept" /\ running /\ lsock = "open" /\ NextToConnect(s))
             => ENABLED Accept(s))
  /\ [][\A s \in Sessions :
          (pc[s] = "idle" /\ pc'[s] # "idle") =>
             /\ pc'[s] = "start"
             /\ \A t \in Sessions \ {s} :
                  /\ pc'[t] = pc[t] /\ resp'[t] = resp[t]
                  /\ back'[t] = back[t] /\ nsent'[t] = nsent[t]]_vars
  /\ [](\A s \in Sessions : (Alive /\ CanStep(s)) => ENABLED HandlerStep(s))

C26_Witness ==
  \E s, t \in Sessions :
    /\ Stalled(t) /\ nsent[t] = 1
    /\ NextToConnect(s) /\ ENABLED Accept(s)

\* cleanup() is inside its loop over self.clients: it has closed a client
\* and has not yet left the loop.
Iterating == srv = "cl_clients" /\ ci > 1

\* C27: self.clients does not change while cleanup() iterates it, and when
\* the loop ends the socket of every client on the list is closed.
C27_ListStableInIteration ==
  /\ [][Iterating => clients' = clients]_vars
  /\ [][(srv = "cl_clients" /\ srv' # "cl_clients") =>
          \A i \in 1..Len(clients) : sock[clients[i]] = "closed"]_vars

\* C31: self.error_count never exceeds self.read_count.
C31_ErrorsWithinReads == error_count <= read_count

\* The reads of all the records the reporter has logged.
ReportedReads ==
  LET F[i \in 0..Len(snap)] == IF i = 0 THEN 0 ELSE F[i-1] + snap[i].reads
  IN F[Len(snap)]
\* No tick is in progress, and no read is inside its  self.read_count += 1.
Settled ==
  /\ mon \in {"sleep", "done"}
  /\ \A s \in Sessions : ~(pc[s] = "exec" /\ cmd[s].type = "read" /\ idx[s] = 1)

\* C32: between ticks, the reads reported so far plus the read counter is
\* the number of read commands that have counted themselves.
C32_NoReadLost == Settled => ReportedReads + read_count = nreads

\* Messages the handler of s has taken off its connection.
Taken(s) == creq[s] - Len(wire[s])
\* The handler of s takes a message in this step.
Takes(s) == pc[s] = "recv" /\ Len(wire'[s]) < Len(wire[s])

\* C33: a message that is valid JSON, whatever its shape, is answered
\* exactly once with status "success" or "error": taking it starts
\* process_command or, for a value that is not an object, an error
\* response; process_command ends in a response, never in the end of the
\* session; the response is sent and the handler is back in recv() with
\* its socket open.
C33_AnyShapeAnswered ==
  /\ [][\A s \in Sessions :
          /\ Takes(s) =>
               /\ pc'[s] \in {"exec", "send"}
               /\ pc'[s] = "send" => resp'[s].status = "error"
          /\ pc[s] = "exec" => pc'[s] \in {"exec", "send"}
          /\ (pc[s] = "send" /\ pc'[s] # "send") =>
               /\ nsent'[s] = nsent[s] + 1
               /\ back'[s] = Append(back[s], [rid |-> rid[s], part |-> 1,
                                              of |-> 1, body |-> resp[s]])
               /\ pc'[s] = "recv" /\ sock'[s] = "open"]_vars
  /\ [](\A s \in Sessions :
          /\ pc[s] = "send" => resp[s].status \in {"success", "error"}
          /\ pc[s] \notin {"fin", "done"}
          /\ pc[s] = "recv" => nsent[s] = Taken(s)
          /\ pc[s] \in {"exec", "send"} => nsent[s] = Taken(s) - 1)

C33_Witness ==
  \E s \in Sessions :
    /\ pc[s] = "recv" /\ sock[s] = "open" /\ nsent[s] = 2 /\ Taken(s) = 2
    /\ cgot[s].for = 1 /\ cgot[s].body.status = "error"
    /\ cgot[s].body.msg = "object has no attribute 'get'"
    /\ Len(back[s]) = 1 /\ back[s][1].body.status = "success"

\* Requests a helper builds when every parameter has its default value.
ByDefault ==
  {SweepByDefault, VoltageSourceByDefault, CurrentSourceByDefault,
   OutputByDefault}
\* The same request with its 'data' member left out.
Bare(b) == [type |-> b.type]

\* C34: a request built by a helper of the client is dispatched by the
\* server, with or without a 'data' member, and never answered "Unknown
\* command type"; a request built from the helper's default arguments
\* is read by the server exactly as the same request without 'data', and
\* for a sweep these values are start 0, stop 5, 11 steps, compliance 0.1
\* and delay 0.1.
C34_ClientServerAgree ==
  \A s \in Sessions :
    /\ \A i \in 1..Len(wire[s]) :
         LET b == wire[s][i].body
         IN /\ FromRequest(b).type \in KnownTypes
            /\ b \in ByDefault => FromRequest(b) = FromRequest(Bare(b))
    /\ pc[s] = "exec" => cmd[s].type \in KnownTypes
    /\ pc[s] = "send" =>
         ~(resp[s].status = "error" /\
           resp[s].msg = UnknownMessage(cmd[s].type))
    /\ (pc[s] = "exec" /\ cmd[s] = FromRequest(Bare(SweepByDefault))) =>
         /\ cmd[s].start = 0 /\ cmd[s].stop = 5 /\ cmd[s].steps = 11
         /\ cmd[s].compliance = Dec(1, 10) /\ cmd[s].delay = Dec(1, 10)

C34_Witness ==
  \E s \in Sessions :
    /\ pc[s] = "send" /\ cmd[s] = FromRequest(SweepByDefault)
    /\ resp[s].status = "success" /\ Len(resp[s].data) = 11
    /\ cgot[s].for = 1 /\ cgot[s].body.status = "success"

\* The positions of set_current and of check_and_update_current between
\* lock() and unlock().
InSetCurrent == gpc \in {"value", "flag", "unlock"}
InCheck == tpc \in {"apply", "commit", "fail", "unlock"}
\* The value of the latest set_current that has stored its request.
LatestRequest ==
  IF gpc \in {"lock", "value"} THEN
    IF Len(asked) > 1 THEN asked[Len(asked) - 1].value ELSE 0
  ELSE IF asked # <<>> THEN asked[Len(asked)].value ELSE 0

\* C35: set_current and check_and_update_current are never both between
\* lock and unlock; the request and its flag are stored together; the
\* value given to the device is the latest one requested; current_mA
\* changes only to the value the device has just been given; and a request
\* stays pending until check_and_update_current applies it or reports its
\* failure.
C35_CurrentRequestSafe ==
  /\ [](~(InSetCurrent /\ InCheck))
  /\ [](InSetCurrent <=> mutex = "gui")
  /\ [](InCheck <=> mutex = "thread")
  /\ []((current_change_requested /\ ~InSetCurrent) =>
          new_current_mA = LatestRequest)
  /\ [][setpoint' # setpoint \/ applied' # applied =>
          \/ tpc = "setup" /\ setpoint' = current_mA
          \/ /\ tpc = "apply" /\ current_change_requested
             /\ setpoint' = new_current_mA
             /\ new_current_mA = LatestRequest
             /\ applied' = Append(applied, setpoint')]_vars
  /\ [][current_mA' # current_mA =>
          \/ tpc = "none"
          \/ tpc = "commit" /\ current_mA' = setpoint
                            /\ current_mA' = applied[Len(applied)]]_vars
  /\ [][(current_change_requested /\ ~current_change_requested') =>
          /\ tpc \in {"commit", "fail"}
          /\ Len(signals') = Len(signals) + 1
          /\ signals'[Len(signals')].value = new_current_mA]_vars
  /\ [][(gpc = "flag" /\ gpc' # "flag") =>
          current_change_requested' /\ new_current_mA' = new_current]_vars

C35_Witness ==
  /\ Len(asked) = 2 /\ asked[2].waited /\ asked[2].value # asked[1].value
  /\ Len(applied) = 2 /\ applied[2] = asked[2].value
  /\ current_mA = asked[2].value /\ setpoint = current_mA
  /\ ~current_change_requested /\ tpc = "read"

\* A request is pending while the server runs.
Pending == current_change_requested /\ server_running /\ IsRunning

\* C36: a request that is pending while the server runs is eventually
\* applied or reported as failed, unless the server is stopped first.
C36_RequestResolved == Pending ~> ~Pending

\* C37: in the CLD101x server the instrument's timeout after any command
\* equals its value before the command.  Only READ_TEC_TEMPERATURE changes
\* it: it is lowered for the duration of the query alone, and it is back at
\* the original value when the response is ready, whether the query
\* returned, timed out or failed with another VISA error.
InTecQuery == mpc \in {"tec_query", "tec_restore"}
OneByOne ==
  \A i, j \in DOMAIN callers : i # j => callers[i] # callers[j]
C38_EveryMessageAnswered ==
  /\ [][/\ (mpc = "recv" /\ taken' # taken) => mpc' = "exec"
        /\ (mpc # "close" /\ mpc' = "close") => link[serving] = "left"
        /\ (mpc = "send" /\ mpc' # "send" /\ link[serving] = "open") =>
             answered'[serving] = answered[serving] + 1
        /\ answered' # answered => mpc = "send"]_vars
  /\ [](/\ OneByOne
        /\ (mpc = "recv" /\ link[serving] = "open") =>
             answered[serving] = taken[serving])

=============================================================================
